---- MODULE Spec2Model ----
(***************************************************************************)
(* Model of quorum-lab/benchmark.py: the phased / sequential benchmark     *)
(* drivers (execute_phased_benchmark, execute_sequential_benchmark) and    *)
(* the receipt worker pool (launch_receipt_worker).                        *)
(*                                                                         *)
(* Time is counted in integer clock ticks.  The variable now is the value  *)
(* of the last time.perf_counter() read by any thread; a read returns a    *)
(* value at or after it (ClockReads), so every non-decreasing sequence of  *)
(* clock readings is a behaviour of the model.                             *)
(* An optional Python value is a sequence: None is <<>>, a value v is <<v>>*)
(***************************************************************************)
EXTENDS Integers, Sequences, FiniteSets, TLC

\* ---- bounds of the model ------------------------------------------------
MaxVoters == 3          \* most accounts handed to a run
MaxPhases == 2          \* most --phase flags
MaxCount == 2           \* largest COUNT of one phase
MaxInterval == 2        \* largest pacing interval of one phase, in ticks
MaxReceiptWorkers == 2  \* largest --receipt-workers value
MaxAdvance == 1         \* most ticks the clock moves between two reads
MaxTime == 2            \* the clock stops advancing freely at this reading
MaxLoad == 4            \* most accounts plus worker threads of one run

None == <<>>
Some(v) == <<v>>

Max(a, b) == IF a >= b THEN a ELSE b

RECURSIVE SumCounts(_)
\* sum(entry["count"] for entry in phase_plan)
SumCounts(plan) ==
    IF plan = <<>> THEN 0 ELSE Head(plan).count + SumCounts(Tail(plan))

\* ---- inputs -------------------------------------------------------------
VoterPool == [i \in 1..(MaxVoters + 1) |-> i + 100]

\* a phase entry as build_phase_plan returns it, with the generated label
PhaseEntry(c, iv, k) == [count |-> c, interval |-> iv, label |-> k]

PhaseChoices == (1..MaxCount) \X (1..MaxInterval)

\* the plans build_phase_plan can return for up to MaxPhases --phase flags
\* (labels auto-generated: phase<idx+1>, here the number idx+1)
PhasePlans ==
    UNION { { [k \in 1..n |-> PhaseEntry(f[k][1], f[k][2], k)] :
                f \in [1..n -> PhaseChoices] } : n \in 1..MaxPhases }

LabelString == "run"
TxHashOf(i) == i + 200
GasUsed == 21000
ProposalId == 0
TokenOf(i) == i + 300
\* tx_hash.hex(): the text form of a hash
Hex(h) == <<"0x", h>>

\* ---- text ---------------------------------------------------------------
\* A Python str is the sequence of its characters.
Digits == <<"0", "1", "2", "3", "4", "5", "6", "7", "8", "9">>
IsDigit(c) == \E d \in 1..10 : Digits[d] = c
DigitValue(c) == (CHOOSE d \in 1..10 : Digits[d] = c) - 1

UpperCase == <<"T", "P", "S", "I", "N", "F", "A">>
LowerCase == <<"t", "p", "s", "i", "n", "f", "a">>
\* str.lower() of one character
LowerChar(c) ==
    IF \E k \in 1..Len(UpperCase) : UpperCase[k] = c
    THEN LowerCase[CHOOSE k \in 1..Len(UpperCase) : UpperCase[k] = c]
    ELSE c

\* str.lower()
Lower(s) == [k \in 1..Len(s) |-> LowerChar(s[k])]

IsSpace(c) == c = " "

RECURSIVE LStrip(_)
LStrip(s) ==
    IF s # <<>> /\ IsSpace(Head(s)) THEN LStrip(Tail(s)) ELSE s

RECURSIVE RStrip(_)
RStrip(s) ==
    IF s # <<>> /\ IsSpace(s[Len(s)])
    THEN RStrip(SubSeq(s, 1, Len(s) - 1)) ELSE s

\* str.strip()
Strip(s) == RStrip(LStrip(s))

\* sub in s, for a one-character sub
Contains(s, c) == \E k \in 1..Len(s) : s[k] = c

\* s.find(c) + 1 for a character that occurs in s
FirstIndex(s, c) == CHOOSE k \in 1..Len(s) :
                        s[k] = c /\ \A j \in 1..(k - 1) : s[j] # c

\* s.split(c, 1) of a string that holds c: the text before the first c and
\* the text after it
SplitOnce(s, c) ==
    <<SubSeq(s, 1, FirstIndex(s, c) - 1),
      SubSeq(s, FirstIndex(s, c) + 1, Len(s))>>

RECURSIVE Split(_, _)
\* s.split(c): the pieces between the occurrences of c, empty ones kept
Split(s, c) ==
    IF ~Contains(s, c) THEN <<s>>
    ELSE <<SplitOnce(s, c)[1]>> \o Split(SplitOnce(s, c)[2], c)

\* s.endswith(suffix)
EndsWith(s, suffix) ==
    /\ Len(s) >= Len(suffix)
    /\ SubSeq(s, Len(s) - Len(suffix) + 1, Len(s)) = suffix

\* s[:-n]
DropLast(s, n) == SubSeq(s, 1, Len(s) - n)

RECURSIVE DecimalDigits(_)
\* the decimal digits of a number n >= 0
DecimalDigits(n) ==
    IF n < 10 THEN <<Digits[n + 1]>>
    ELSE DecimalDigits(n \div 10) \o <<Digits[(n % 10) + 1]>>

\* str(n) of an int, as an f-string formats it
Str(n) == IF n < 0 THEN <<"-">> \o DecimalDigits(0 - n) ELSE DecimalDigits(n)

AllDigits(s) == \A k \in 1..Len(s) : IsDigit(s[k])

RECURSIVE DigitsValue(_)
\* the number a string of decimal digits denotes (0 for the empty string)
DigitsValue(s) ==
    IF s = <<>> THEN 0
    ELSE 10 * DigitsValue(SubSeq(s, 1, Len(s) - 1)) + DigitValue(s[Len(s)])

IsSign(c) == c = "+" \/ c = "-"
SignOf(s) == IF s # <<>> /\ Head(s) = "-" THEN -1 ELSE 1
Unsigned(s) == IF s # <<>> /\ IsSign(Head(s)) THEN Tail(s) ELSE s

\* the outcome of a call: a returned value or a raised ValueError
Returned(v) == [raised |-> FALSE, msg |-> "", value |-> <<v>>]
Raised(m) == [raised |-> TRUE, msg |-> m, value |-> <<>>]

\* int(s): surrounding whitespace dropped, an optional sign, then one or
\* more decimal digits; anything else raises ValueError
PyInt(s) ==
    LET body == Unsigned(Strip(s))
    IN IF body # <<>> /\ AllDigits(body)
       THEN Returned(SignOf(Strip(s)) * DigitsValue(body))
       ELSE Raised("invalid literal for int()")

\* ---- floating point -----------------------------------------------------
\* A float is a binary floating-point number with a significand of
\* MantissaBits bits, rounded to nearest, ties to even, as Python's float is
\* with 53 bits.  A finite value is s * m * 2^e with m = 0 or
\* 2^(MantissaBits-1) <= m < 2^MantissaBits.  The exponent range is not
\* bounded: no input of the lengths explored reaches it.
MantissaBits == 5

RECURSIVE Pow2(_)
Pow2(k) == IF k <= 0 THEN 1 ELSE 2 * Pow2(k - 1)

RECURSIVE Pow10(_)
Pow10(k) == IF k <= 0 THEN 1 ELSE 10 * Pow10(k - 1)

Fin(s, m, e) == [cls |-> "fin", s |-> s, m |-> m, e |-> e]
Zero(s) == Fin(s, 0, 0)
Inf(s) == [cls |-> "inf", s |-> s, m |-> 0, e |-> 0]
NaN == [cls |-> "nan", s |-> 1, m |-> 0, e |-> 0]

IsNaN(x) == x.cls = "nan"
IsZero(x) == x.cls = "fin" /\ x.m = 0

RECURSIVE RoundRatio(_, _, _, _)
\* the float nearest to s * (n / d) * 2^e, for n > 0 and d > 0
RoundRatio(s, n, d, e) ==
    IF n < d * Pow2(MantissaBits - 1) THEN RoundRatio(s, 2 * n, d, e - 1)
    ELSE IF n >= d * Pow2(MantissaBits) THEN RoundRatio(s, n, 2 * d, e + 1)
    ELSE LET q == n \div d
             r == n % d
             up == 2 * r > d \/ (2 * r = d /\ q % 2 = 1)
             m == IF up THEN q + 1 ELSE q
         IN IF m = Pow2(MantissaBits)
            THEN Fin(s, Pow2(MantissaBits - 1), e + 1)
            ELSE Fin(s, m, e)

\* x <= 0 and x > 0 of two floats; every comparison with nan is False
FloatLeZero(x) == ~IsNaN(x) /\ (IsZero(x) \/ x.s = -1)
FloatGtZero(x) == ~IsNaN(x) /\ ~IsZero(x) /\ x.s = 1

\* x == y of two floats: nan equals nothing, the two zeros are equal
FloatEq(x, y) ==
    /\ ~IsNaN(x)
    /\ ~IsNaN(y)
    /\ (IsZero(x) /\ IsZero(y)) \/ x = y

\* 1.0 / x for x # 0 (the callers divide only after x <= 0 was False)
Reciprocal(x) ==
    IF IsNaN(x) THEN NaN
    ELSE IF x.cls = "inf" THEN Zero(x.s)
    ELSE RoundRatio(x.s, 1, x.m, 0 - x.e)

\* the digits before and after the point of a decimal numeral
IntegerDigits(s) ==
    IF Contains(s, ".") THEN SplitOnce(s, ".")[1] ELSE s
FractionDigits(s) ==
    IF Contains(s, ".") THEN SplitOnce(s, ".")[2] ELSE <<>>

\* digits with at most one point and at least one digit ("1", "1.", ".5")
IsDecimal(s) ==
    /\ AllDigits(IntegerDigits(s))
    /\ AllDigits(FractionDigits(s))
    /\ Len(IntegerDigits(s)) + Len(FractionDigits(s)) >= 1

\* the fraction num / den a decimal numeral denotes
DecimalNum(s) == DigitsValue(IntegerDigits(s) \o FractionDigits(s))
DecimalDen(s) == Pow10(Len(FractionDigits(s)))

\* float(s): surrounding whitespace dropped, an optional sign, then "inf",
\* "infinity" or "nan" in any case, or a decimal numeral (numerals with an
\* exponent are not among the inputs explored); else ValueError
PyFloat(s) ==
    LET t == Strip(s)
        body == Lower(Unsigned(t))
    IN IF body = <<"i", "n", "f">>
            \/ body = <<"i", "n", "f", "i", "n", "i", "t", "y">>
       THEN Returned(Inf(SignOf(t)))
       ELSE IF body = <<"n", "a", "n">> THEN Returned(NaN)
       ELSE IF ~IsDecimal(body) THEN Raised("could not convert string to float")
       ELSE IF DecimalNum(body) = 0 THEN Returned(Zero(SignOf(t)))
       ELSE Returned(RoundRatio(SignOf(t), DecimalNum(body), DecimalDen(body), 0))

\* ---- parse_phase_spec ---------------------------------------------------
\* the dict parse_phase_spec returns
PhaseDict(count, tps, interval) ==
    [count |-> count, tps |-> tps, interval |-> interval]

\* the "tps" branch of parse_phase_spec
ParseTps(count, rate_str) ==
    LET tps == PyFloat(DropLast(rate_str, 3))
    IN IF tps.raised THEN Raised("Unable to parse TPS value")
       ELSE IF FloatLeZero(tps.value[1])
            THEN Raised("Phase TPS must be greater than zero.")
       ELSE Returned(PhaseDict(count, tps.value[1], Reciprocal(tps.value[1])))

\* the "s" branch of parse_phase_spec
ParseInterval(count, rate_str) ==
    LET interval == PyFloat(DropLast(rate_str, 1))
    IN IF interval.raised THEN Raised("Unable to parse interval seconds")
       ELSE IF FloatLeZero(interval.value[1])
            THEN Raised("Phase interval must be greater than zero seconds.")
       ELSE Returned(PhaseDict(count, Reciprocal(interval.value[1]),
                               interval.value[1]))

parse_phase_spec(spec) ==
    IF ~Contains(spec, "@") THEN Raised("Invalid phase specification")
    ELSE LET count_part == SplitOnce(spec, "@")[1]
             rate_part == SplitOnce(spec, "@")[2]
             count == PyInt(count_part)
             rate_str == Lower(Strip(rate_part))
         IN IF count.raised THEN Raised("Phase count must be an integer")
            ELSE IF EndsWith(rate_str, <<"t", "p", "s">>)
                 THEN ParseTps(count.value[1], rate_str)
            ELSE IF EndsWith(rate_str, <<"s">>)
                 THEN ParseInterval(count.value[1], rate_str)
            ELSE Raised("Unknown rate suffix")

\* ---- latency statistics -------------------------------------------------
RECURSIVE InsertValue(_, _)
\* v put into the ascending sequence s, after the values equal to it
InsertValue(s, v) ==
    IF s = <<>> THEN <<v>>
    ELSE IF v < Head(s) THEN <<v>> \o s
    ELSE <<Head(s)>> \o InsertValue(Tail(s), v)

RECURSIVE Sorted(_)
\* sorted(values)
Sorted(values) ==
    IF values = <<>> THEN <<>>
    ELSE InsertValue(Sorted(SubSeq(values, 1, Len(values) - 1)),
                     values[Len(values)])

\* the product rounded down instead of up
FloorOfFraction(num, den, n) == (num * n) \div den

\* math.ceil(fraction * n) for the fraction num / den (for 95 / 100 the
\* float product 0.95 * n has the same ceiling as the exact one)
CeilOfFraction(num, den, n) == (num * n + den - 1) \div den

\* a percentile read from the list as it was passed, not sorted
percentile_unsorted(values, num, den) ==
    values[Max(0, CeilOfFraction(num, den, Len(values)) - 1) + 1]

\* percentile(values, fraction) of a non-empty list:
\* index = max(0, math.ceil(fraction * len(ordered)) - 1); ordered[index]
percentile(values, num, den) ==
    Sorted(values)[Max(0, CeilOfFraction(num, den, Len(values)) - 1) + 1]

RECURSIVE SumValues(_)
SumValues(values) ==
    IF values = <<>> THEN 0 ELSE Head(values) + SumValues(Tail(values))

\* statistics.mean(values), kept as the exact fraction sum / count
Mean(values) == [num |-> SumValues(values), den |-> Len(values)]

\* the last value of the list taken for the largest
LastValue(values) == values[Len(values)]

\* max(values)
MaxValue(values) ==
    CHOOSE v \in {values[k] : k \in 1..Len(values)} :
        \A k \in 1..Len(values) : values[k] <= v

\* calculate_latency_stats(latencies): None for an empty list
calculate_latency_stats(values) ==
    IF values = <<>> THEN None
    ELSE Some([avg |-> Some(Mean(values)),
               p95 |-> Some(percentile(values, 95, 100)),
               max |-> Some(MaxValue(values)),
               count |-> Len(values)])

\* the dict that stands for a phase without latencies
NoLatencyStats ==
    [avg |-> None, p95 |-> None, max |-> None, count |-> 0]

\* mutant: only the rows with status 1 contribute their latency
LatenciesOfSuccesses(rows) ==
    LET with == SelectSeq(rows, LAMBDA row :
                    row.latency_sec # None /\ row.status = 1)
    IN [k \in 1..Len(with) |-> with[k].latency_sec[1]]

\* the latencies of the rows that have one, in row order
LatenciesOf(rows) ==
    LET with == SelectSeq(rows, LAMBDA row : row.latency_sec # None)
    IN [k \in 1..Len(with) |-> with[k].latency_sec[1]]

\* a breakdown that lists only the phases some row has a latency for
collect_latency_breakdown_seen(rows, plan) ==
    LET phase_latencies(label) ==
            LatenciesOf(SelectSeq(rows, LAMBDA row :
                            plan # None /\ row.phase = Some(label)))
        labels == IF plan = None THEN {}
                  ELSE {plan[1][k].label : k \in 1..Len(plan[1])}
    IN <<calculate_latency_stats(LatenciesOf(rows)),
         [label \in {l \in labels : phase_latencies(l) # <<>>} |->
            calculate_latency_stats(phase_latencies(label))[1]]>>

\* a breakdown whose phase buckets take every row, whatever its label
collect_latency_breakdown_unfiltered(rows, plan) ==
    LET labels == IF plan = None THEN {}
                  ELSE {plan[1][k].label : k \in 1..Len(plan[1])}
    IN <<calculate_latency_stats(LatenciesOf(rows)),
         [label \in labels |->
            IF calculate_latency_stats(LatenciesOf(rows)) # None
            THEN calculate_latency_stats(LatenciesOf(rows))[1]
            ELSE NoLatencyStats]>>

\* collect_latency_breakdown(results, phase_plan): the overall statistics
\* and, per label of the plan, the statistics of the rows of that phase
\* (a plan is None or Some(plan), a row's phase is None or Some(label))
collect_latency_breakdown(rows, plan) ==
    LET overall_latencies == LatenciesOf(rows)
        phase_latencies(label) ==
            LatenciesOf(SelectSeq(rows, LAMBDA row :
                            plan # None /\ row.phase = Some(label)))
        labels == IF plan = None THEN {}
                  ELSE {plan[1][k].label : k \in 1..Len(plan[1])}
    IN <<calculate_latency_stats(overall_latencies),
         [label \in labels |->
            IF calculate_latency_stats(phase_latencies(label)) # None
            THEN calculate_latency_stats(phase_latencies(label))[1]
            ELSE NoLatencyStats]>>

VARIABLES
    phase_plan,     \* None or Some(plan): what build_phase_plan returned
    voters,         \* the accounts handed to the run
    receipt_workers,\* args.receipt_workers
    now,            \* last reading of time.perf_counter()
    clock_limit,    \* the reading at which the clock stops advancing freely
    pc,             \* position of the submitter (the main thread)
    schedule,       \* the scheduled calls, in submission order
    index,          \* loop index of the submitter
    start_overall,
    next_emit_time,
    wake_at,        \* the instant the pending time.sleep() may return; 0
                    \* while the submitter is not sleeping
    iteration_start,\* read at the head of an attempt; it keeps the value
                    \* until the next attempt reads it again
    sub_row,        \* the row the submitter is about to append
    sentinels_put,  \* number of None items put so far
    duration,       \* None until measured
    queue,          \* submission_queue, FIFO
    unfinished_tasks,\* queue.Queue's count of items not yet task_done()
    results,        \* the shared result list
    results_lock,   \* None or Some(holder)
    wpc,            \* position of each worker thread
    witem,          \* the item each worker holds
    wrow,           \* the row each worker is about to append
    network,        \* what the network answered for each call
    spec,           \* the argument of parse_phase_spec
    parse_result,   \* None, or Some(outcome) once parse_phase_spec is over
    args_phases,    \* args.phases: the --phase values (<<>> when absent)
    args_phase_labels, \* args.phase_labels (<<>> when absent or empty)
    args_tx_count,  \* args.tx_count
    main_pc,        \* position of main
    latencies,      \* the argument of calculate_latency_stats
    stats_result    \* None, or Some(stats) once calculate_latency_stats
                    \* is over

vars == <<phase_plan, voters, receipt_workers, clock_limit, now, pc, schedule, index,
          start_overall, next_emit_time, wake_at, iteration_start, sub_row,
          sentinels_put, duration, queue, unfinished_tasks, results,
          results_lock, wpc, witem, wrow, network, spec, parse_result,
          args_phases, args_phase_labels, args_tx_count, main_pc, latencies,
          stats_result>>

subVars == <<pc, schedule, index, start_overall, next_emit_time, wake_at,
             iteration_start, sub_row, sentinels_put, duration>>
workerVars == <<wpc, witem, wrow>>
parseVars == <<spec, parse_result>>
mainVars == <<args_phases, args_phase_labels, args_tx_count, main_pc>>
statsVars == <<latencies, stats_result>>
\* what a run reads and never writes
inputVars == <<phase_plan, voters, receipt_workers, clock_limit, parseVars,
               mainVars, statsVars>>

\* parse_phase_spec is not being called
NoParse == spec = <<>> /\ parse_result = None
\* main is past its argument handling: it has dispatched to the run
NoMain ==
    /\ args_phases = <<>>
    /\ args_phase_labels = <<>>
    /\ args_tx_count = 0
    /\ main_pc = "run"
\* calculate_latency_stats is not being called
NoStats == latencies = <<>> /\ stats_result = None

\* mutant: the worker count taken from the argument without the clamp
worker_count_unclamped == receipt_workers

\* worker_count = max(1, args.receipt_workers)
worker_count == Max(1, receipt_workers)
Workers == 1..worker_count

\* the values a call of time.perf_counter() can return
ClockReads == {now} \cup {t \in now..(now + MaxAdvance) : t <= clock_limit}

Init ==
    /\ phase_plan \in {None} \cup {Some(p) : p \in PhasePlans}
    /\ voters \in {SubSeq(VoterPool, 1, n) : n \in 0..MaxVoters}
    /\ receipt_workers \in 0..MaxReceiptWorkers
    /\ Len(voters) + worker_count <= MaxLoad
    \* the runs explored: with a clock that moves only by the pacing sleeps
    \* (every read in between returns the same value) for any number of
    \* workers, and with a freely advancing clock for the default of one
    /\ clock_limit \in {0, MaxTime}
    /\ clock_limit > 0 => receipt_workers = 1
    /\ now = 0
    /\ pc = "entry"
    /\ schedule = <<>>
    /\ index = 0
    /\ start_overall = 0
    /\ next_emit_time = 0
    /\ wake_at = 0
    /\ iteration_start = 0
    /\ sub_row = None
    /\ sentinels_put = 0
    /\ duration = None
    /\ queue = <<>>
    /\ unfinished_tasks = 0
    /\ results = <<>>
    /\ results_lock = None
    /\ wpc = <<>>
    /\ witem = <<>>
    /\ wrow = <<>>
    /\ network = <<>>
    /\ NoParse
    /\ NoMain
    /\ NoStats

\* ---- schedule construction ---------------------------------------------
\* len(range(n)): the number of iterations of "for _ in range(n)"
RangeLen(n) == Max(0, n)

RECURSIVE ExpandFromFirstVoter(_, _, _)
\* an expansion whose voter_index starts again at 0 in every phase
ExpandFromFirstVoter(plan, vs, first) ==
    IF plan = <<>> THEN <<>>
    ELSE [k \in 1..RangeLen(Head(plan).count) |->
             [index |-> first + k - 1,
              account |-> vs[k],
              interval |-> Head(plan).interval,
              phase |-> Some(Head(plan).label)]]
         \o ExpandFromFirstVoter(Tail(plan), vs,
                                 first + RangeLen(Head(plan).count))

RECURSIVE Expand(_, _, _)
\* the nested loop of execute_phased_benchmark: one entry per call of each
\* phase in plan order, voter_index counting up from first
Expand(plan, vs, first) ==
    IF plan = <<>> THEN <<>>
    ELSE [k \in 1..RangeLen(Head(plan).count) |->
             [index |-> first + k - 1,
              account |-> vs[first + k],
              interval |-> Head(plan).interval,
              phase |-> Some(Head(plan).label)]]
         \o Expand(Tail(plan), vs, first + RangeLen(Head(plan).count))

\* an enumeration whose items carry a phase label
EnumerateLabelled(vs) ==
    [k \in 1..Len(vs) |->
        [index |-> k - 1, account |-> vs[k], interval |-> 0,
         phase |-> Some(LabelString)]]

\* enumerate(voters) of execute_sequential_benchmark; no interval is used
\* and the phase of every item is None
Enumerate(vs) ==
    [k \in 1..Len(vs) |->
        [index |-> k - 1, account |-> vs[k], interval |-> 0, phase |-> None]]

Phased == phase_plan # None
Plan == phase_plan[1]

\* the head of the for loop once i iterations are over: the loop ends, or
\* the next item is paced (phased, never the first item) or started
LoopHead(sched, i) ==
    IF i >= Len(sched) THEN "sentinels"
    ELSE IF Phased /\ i > 0 THEN "pace"
    ELSE "start"

NoAnswer == [transact |-> "pending", receipt |-> "pending", status |-> None]

\* results = [], the lock, start_overall = perf_counter(), the worker
\* threads started by launch_receipt_worker, next_emit_time = start_overall
Launch(sched, t) ==
    /\ schedule' = sched
    /\ now' = t
    /\ start_overall' = t
    /\ next_emit_time' = t
    /\ wpc' = [w \in Workers |-> "get"]
    /\ witem' = [w \in Workers |-> None]
    /\ wrow' = [w \in Workers |-> None]
    /\ network' = [k \in 1..Len(sched) |-> NoAnswer]
    /\ pc' = LoopHead(sched, 0)
    /\ UNCHANGED <<inputVars, index, wake_at, iteration_start, sub_row,
                   sentinels_put, duration, queue, unfinished_tasks, results,
                   results_lock>>

\* execute_phased_benchmark up to the first loop iteration
PhasedEntry ==
    /\ pc = "entry"
    /\ Phased
    /\ SumCounts(Plan) <= Len(voters)
    /\ \E t \in ClockReads : Launch(Expand(Plan, voters, 0), t)

\* the ValueError raised only after launch_receipt_worker has started the
\* threads
PhasedInsufficientAfterLaunch ==
    /\ pc = "entry"
    /\ Phased
    /\ SumCounts(Plan) > Len(voters)
    /\ pc' = "raised"
    /\ wpc' = [w \in Workers |-> "get"]
    /\ witem' = [w \in Workers |-> None]
    /\ wrow' = [w \in Workers |-> None]
    /\ UNCHANGED <<inputVars, now, schedule, index, start_overall,
                   next_emit_time, wake_at, iteration_start, sub_row,
                   sentinels_put, duration, queue, unfinished_tasks, results,
                   results_lock, network>>

\* total_required > len(voters): raise ValueError
PhasedInsufficient ==
    /\ pc = "entry"
    /\ Phased
    /\ SumCounts(Plan) > Len(voters)
    /\ pc' = "raised"
    /\ UNCHANGED <<inputVars, now, schedule, index, start_overall,
                   next_emit_time, wake_at, iteration_start, sub_row,
                   sentinels_put, duration, queue, unfinished_tasks, results,
                   results_lock, workerVars, network>>

\* execute_sequential_benchmark up to the first loop iteration
SequentialEntry ==
    /\ pc = "entry"
    /\ ~Phased
    /\ \E t \in ClockReads : Launch(Enumerate(voters), t)

\* ---- the submitter's loop ----------------------------------------------
Item == schedule[index + 1]

\* index > 0: now = perf_counter(), sleep_duration = next_emit_time - now,
\* and time.sleep(sleep_duration) when it is positive
Pace ==
    /\ pc = "pace"
    /\ \E t \in ClockReads :
         /\ now' = t
         /\ IF next_emit_time - t > 0
            THEN /\ wake_at' = t + (next_emit_time - t)
                 /\ pc' = "sleep"
            ELSE /\ pc' = "start"
                 /\ UNCHANGED wake_at
    /\ UNCHANGED <<inputVars, schedule, index, start_overall, next_emit_time,
                   iteration_start, sub_row, sentinels_put, duration, queue,
                   unfinished_tasks, results, results_lock, workerVars,
                   network>>

\* mutant: the sleep returns at once
SleepReturnsEarly(d) == now

\* the instant at which a time.sleep() entered with deadline d returns
SleepReturn(d) == Max(now, d)

\* time.sleep(sleep_duration) returns: not before the requested time
Wake ==
    /\ pc = "sleep"
    /\ now' = SleepReturn(wake_at)
    /\ wake_at' = 0
    /\ pc' = "start"
    /\ UNCHANGED <<inputVars, schedule, index, start_overall, next_emit_time,
                   iteration_start, sub_row, sentinels_put, duration,
                   queue, unfinished_tasks, results, results_lock, workerVars,
                   network>>

\* iteration_start = time.perf_counter()
Start ==
    /\ pc = "start"
    /\ \E t \in ClockReads :
         /\ now' = t
         /\ iteration_start' = t
    /\ pc' = "transact"
    /\ UNCHANGED <<inputVars, schedule, index, start_overall, next_emit_time,
                   wake_at, sub_row, sentinels_put, duration, queue,
                   unfinished_tasks, results, results_lock, workerVars,
                   network>>

\* mutant: the two instants of the item are exchanged
QueueItemSwapped(item, started, submitted) ==
    [index |-> item.index,
     account |-> item.account,
     tx_hash |-> TxHashOf(item.index),
     start_time |-> submitted,
     submission_time |-> started,
     phase |-> item.phase]

\* the item put on submission_queue after a successful transact()
QueueItem(item, started, submitted) ==
    [index |-> item.index,
     account |-> item.account,
     tx_hash |-> TxHashOf(item.index),
     start_time |-> started,
     submission_time |-> submitted,
     phase |-> item.phase]

\* the row appended by the submitter when transact() raises
SubmitFailureRow(item, submitted) ==
    [index |-> item.index,
     account |-> item.account,
     tx_hash |-> None,
     status |-> 0,
     gas_used |-> None,
     latency_sec |-> None,
     token_id |-> None,
     proposal_id |-> None,
     labels |-> LabelString,
     phase |-> item.phase,
     submitted_sec |-> submitted - start_overall,
     completed_sec |-> None,
     error |-> Some("submit")]

\* after the try statement of an iteration: the phased loop runs its
\* finally clause; the sequential loop has none and goes to its next item
AfterTry ==
    IF Phased
    THEN /\ pc' = "finally"
         /\ UNCHANGED index
    ELSE /\ pc' = LoopHead(schedule, index + 1)
         /\ index' = index + 1

\* mutant: the put waits while a queue of capacity one is full
TransactOkBounded ==
    /\ pc = "transact"
    /\ Len(queue) < 1
    /\ \E t \in ClockReads :
         /\ now' = t
         /\ queue' = Append(queue, Some(QueueItem(Item, iteration_start, t)))
    /\ unfinished_tasks' = unfinished_tasks + 1
    /\ network' = [network EXCEPT ![index + 1].transact = "ok"]
    /\ UNCHANGED iteration_start
    /\ AfterTry
    /\ UNCHANGED <<inputVars, schedule, start_overall, next_emit_time,
                   wake_at, sub_row, sentinels_put, duration,
                   results, results_lock, workerVars>>

\* transact() returns a hash; submission_time is read and the item is put
TransactOk ==
    /\ pc = "transact"
    /\ \E t \in ClockReads :
         /\ now' = t
         /\ queue' = Append(queue, Some(QueueItem(Item, iteration_start, t)))
    /\ unfinished_tasks' = unfinished_tasks + 1
    /\ network' = [network EXCEPT ![index + 1].transact = "ok"]
    /\ UNCHANGED iteration_start
    /\ AfterTry
    /\ UNCHANGED <<inputVars, schedule, start_overall, next_emit_time,
                   wake_at, sub_row, sentinels_put, duration,
                   results, results_lock, workerVars>>

\* mutant: the item is put on the queue although transact() raised
TransactRaisesAndPuts ==
    /\ pc = "transact"
    /\ \E t \in ClockReads :
         /\ now' = t
         /\ sub_row' = Some(SubmitFailureRow(Item, t))
         /\ queue' = Append(queue, Some(QueueItem(Item, iteration_start, t)))
    /\ unfinished_tasks' = unfinished_tasks + 1
    /\ network' = [network EXCEPT ![index + 1].transact = "raised"]
    /\ UNCHANGED iteration_start
    /\ pc' = "lock"
    /\ UNCHANGED <<inputVars, schedule, index, start_overall, next_emit_time,
                   wake_at, sentinels_put, duration, results, results_lock,
                   workerVars>>

\* mutant: the exception of transact() is not caught and ends the run
TransactRaisesPropagates ==
    /\ pc = "transact"
    /\ network' = [network EXCEPT ![index + 1].transact = "raised"]
    /\ pc' = "raised"
    /\ UNCHANGED <<inputVars, now, schedule, index, start_overall,
                   next_emit_time, wake_at, iteration_start, sub_row,
                   sentinels_put, duration, queue, unfinished_tasks, results,
                   results_lock, workerVars>>

\* transact() raises; submission_time is read and the failure row is built
TransactRaises ==
    /\ pc = "transact"
    /\ \E t \in ClockReads :
         /\ now' = t
         /\ sub_row' = Some(SubmitFailureRow(Item, t))
    /\ network' = [network EXCEPT ![index + 1].transact = "raised"]
    /\ UNCHANGED iteration_start
    /\ pc' = "lock"
    /\ UNCHANGED <<inputVars, schedule, index, start_overall, next_emit_time,
                   wake_at, sentinels_put, duration, queue,
                   unfinished_tasks, results, results_lock, workerVars>>

Submitter == 0

\* with results_lock: (acquire)
SubAcquire ==
    /\ pc = "lock"
    /\ results_lock = None
    /\ results_lock' = Some(Submitter)
    /\ pc' = "append"
    /\ UNCHANGED <<inputVars, now, schedule, index, start_overall,
                   next_emit_time, wake_at, iteration_start, sub_row,
                   sentinels_put, duration, queue, unfinished_tasks, results,
                   workerVars, network>>

\* results.append(row) and the release of the lock
SubAppend ==
    /\ pc = "append"
    /\ results' = Append(results, sub_row[1])
    /\ results_lock' = None
    /\ sub_row' = None
    /\ AfterTry
    /\ UNCHANGED <<inputVars, now, schedule, start_overall,
                   next_emit_time, wake_at, iteration_start, sentinels_put,
                   duration, queue, unfinished_tasks, workerVars, network>>

\* mutant: the deadline follows the clock and the interval is not added
NextEmitNoInterval(prev, interval, t) == Max(prev, t)

\* mutant: the deadline keeps to the original timetable whatever the clock
NextEmitCatchUp(prev, interval, t) == prev + interval

\* next_emit_time = max(next_emit_time + item["interval"], perf_counter())
NextEmit(prev, interval, t) == Max(prev + interval, t)

\* mutant: the deadline advances by the interval of the item that comes
\* next, when there is one
FinallyNextInterval ==
    /\ pc = "finally"
    /\ \E t \in ClockReads :
         /\ now' = t
         /\ next_emit_time'
              = NextEmit(next_emit_time,
                         IF index + 2 <= Len(schedule)
                         THEN schedule[index + 2].interval
                         ELSE Item.interval,
                         t)
    /\ index' = index + 1
    /\ pc' = LoopHead(schedule, index + 1)
    /\ UNCHANGED <<inputVars, schedule, start_overall, wake_at,
                   iteration_start, sub_row, sentinels_put, duration, queue,
                   unfinished_tasks, results, results_lock, workerVars,
                   network>>

\* the finally clause of the phased loop, then the next iteration
Finally ==
    /\ pc = "finally"
    /\ \E t \in ClockReads :
         /\ now' = t
         /\ next_emit_time' = NextEmit(next_emit_time, Item.interval, t)
    /\ index' = index + 1
    /\ pc' = LoopHead(schedule, index + 1)
    /\ UNCHANGED <<inputVars, schedule, start_overall, wake_at,
                   iteration_start, sub_row, sentinels_put, duration, queue,
                   unfinished_tasks, results, results_lock, workerVars,
                   network>>

\* ---- end of the run ----------------------------------------------------
\* len(worker_threads): one None is put per started thread
SentinelCount == Len(wpc)

\* for _ in worker_threads: submission_queue.put(None)
PutSentinel ==
    /\ pc = "sentinels"
    /\ sentinels_put < SentinelCount
    /\ queue' = Append(queue, None)
    /\ unfinished_tasks' = unfinished_tasks + 1
    /\ sentinels_put' = sentinels_put + 1
    /\ pc' = IF sentinels_put + 1 >= SentinelCount THEN "qjoin" ELSE "sentinels"
    /\ UNCHANGED <<inputVars, now, schedule, index, start_overall,
                   next_emit_time, wake_at, iteration_start, sub_row, duration,
                   results, results_lock, workerVars, network>>

\* submission_queue.join() returns when every put item was task_done()
QueueJoined == unfinished_tasks = 0

QueueJoin ==
    /\ pc = "qjoin"
    /\ QueueJoined
    /\ pc' = "tjoin"
    /\ UNCHANGED <<inputVars, now, schedule, index, start_overall,
                   next_emit_time, wake_at, iteration_start, sub_row,
                   sentinels_put, duration, queue, unfinished_tasks, results,
                   results_lock, workerVars, network>>

\* mutant: the worker threads are not joined
ThreadsNotJoined == TRUE

\* thread.join() returns for every worker thread: all have ended
ThreadsJoined == \A w \in DOMAIN wpc : wpc[w] = "terminated"

ThreadJoin ==
    /\ pc = "tjoin"
    /\ ThreadsJoined
    /\ pc' = "duration"
    /\ UNCHANGED <<inputVars, now, schedule, index, start_overall,
                   next_emit_time, wake_at, iteration_start, sub_row,
                   sentinels_put, duration, queue, unfinished_tasks, results,
                   results_lock, workerVars, network>>

\* duration = time.perf_counter() - start_overall
MeasureDuration ==
    /\ pc = "duration"
    /\ \E t \in ClockReads :
         /\ now' = t
         /\ duration' = Some(t - start_overall)
    /\ pc' = "sort"
    /\ UNCHANGED <<inputVars, schedule, index, start_overall, next_emit_time,
                   wake_at, iteration_start, sub_row, sentinels_put, queue,
                   unfinished_tasks, results, results_lock, workerVars,
                   network>>

RECURSIVE InsertByIndex(_, _)
\* row placed after the rows of s whose index is not larger (stable)
InsertByIndex(s, row) ==
    IF s = <<>> THEN <<row>>
    ELSE IF s[Len(s)].index <= row.index THEN Append(s, row)
    ELSE Append(InsertByIndex(SubSeq(s, 1, Len(s) - 1), row), s[Len(s)])

\* mutant: the list is returned in append order
SortByIndexSkipped(s) == s

RECURSIVE SortByIndex(_)
\* results.sort(key=lambda item: item["index"])
SortByIndex(s) ==
    IF s = <<>> THEN <<>>
    ELSE InsertByIndex(SortByIndex(SubSeq(s, 1, Len(s) - 1)), s[Len(s)])

\* results.sort(...); return results, duration
SortAndReturn ==
    /\ pc = "sort"
    /\ results' = SortByIndex(results)
    /\ pc' = "done"
    /\ UNCHANGED <<inputVars, now, schedule, index, start_overall,
                   next_emit_time, wake_at, iteration_start, sub_row,
                   sentinels_put, duration, queue, unfinished_tasks,
                   results_lock, workerVars, network>>

\* ---- the receipt workers -----------------------------------------------
\* mutant: get() hands out the oldest item and leaves it on the queue
WGetKeeps(w) ==
    /\ wpc[w] = "get"
    /\ queue # <<>>
    /\ witem' = [witem EXCEPT ![w] = Head(queue)]
    /\ wpc' = [wpc EXCEPT ![w] = IF Head(queue) = None THEN "sentinel" ELSE "wait"]
    /\ UNCHANGED <<inputVars, now, subVars, queue, unfinished_tasks, results,
                   results_lock, wrow, network>>

\* mutant: get() takes the item put last
WGetNewest(w) ==
    /\ wpc[w] = "get"
    /\ queue # <<>>
    /\ witem' = [witem EXCEPT ![w] = queue[Len(queue)]]
    /\ queue' = SubSeq(queue, 1, Len(queue) - 1)
    /\ wpc' = [wpc EXCEPT ![w] = IF queue[Len(queue)] = None
                                 THEN "sentinel" ELSE "wait"]
    /\ UNCHANGED <<inputVars, now, subVars, unfinished_tasks, results,
                   results_lock, wrow, network>>

\* item = submission_queue.get(): blocks while the queue is empty
WGet(w) ==
    /\ wpc[w] = "get"
    /\ queue # <<>>
    /\ witem' = [witem EXCEPT ![w] = Head(queue)]
    /\ queue' = Tail(queue)
    /\ wpc' = [wpc EXCEPT ![w] = IF Head(queue) = None THEN "sentinel" ELSE "wait"]
    /\ UNCHANGED <<inputVars, now, subVars, unfinished_tasks, results,
                   results_lock, wrow, network>>

\* mutant: the worker leaves on the sentinel without task_done()
WSentinelNoTaskDone(w) ==
    /\ wpc[w] = "sentinel"
    /\ wpc' = [wpc EXCEPT ![w] = "exit"]
    /\ UNCHANGED <<inputVars, now, subVars, queue, unfinished_tasks, results,
                   results_lock, witem, wrow, network>>

\* item is None: submission_queue.task_done(); break
WSentinel(w) ==
    /\ wpc[w] = "sentinel"
    /\ unfinished_tasks' = unfinished_tasks - 1
    /\ wpc' = [wpc EXCEPT ![w] = "exit"]
    /\ UNCHANGED <<inputVars, now, subVars, queue, results, results_lock,
                   witem, wrow, network>>

\* the thread's function returns
WExit(w) ==
    /\ wpc[w] = "exit"
    /\ wpc' = [wpc EXCEPT ![w] = "terminated"]
    /\ UNCHANGED <<inputVars, now, subVars, queue, unfinished_tasks, results,
                   results_lock, witem, wrow, network>>

\* the receipts wait_for_transaction_receipt can return: status 1 with a
\* VoteCast log that decodes, status 1 whose decoding fails, status 0
Receipts ==
    { [status |-> 1, gasUsed |-> Some(GasUsed), decodes |-> TRUE],
      [status |-> 1, gasUsed |-> Some(GasUsed), decodes |-> FALSE],
      [status |-> 0, gasUsed |-> Some(GasUsed), decodes |-> FALSE] }

\* mutant: a receipt whose log does not decode is recorded as a failure
ReceiptRowDecodeFatal(item, receipt, completion_time) ==
    [index |-> item.index,
     account |-> item.account,
     tx_hash |-> Some(Hex(item.tx_hash)),
     status |-> IF receipt.decodes THEN receipt.status ELSE 0,
     gas_used |-> receipt.gasUsed,
     latency_sec |-> Some(completion_time - item.start_time),
     token_id |-> IF receipt.decodes THEN Some(TokenOf(item.index)) ELSE None,
     proposal_id |-> IF receipt.decodes THEN Some(ProposalId) ELSE None,
     labels |-> LabelString,
     phase |-> item.phase,
     submitted_sec |-> item.submission_time - start_overall,
     completed_sec |-> Some(completion_time - start_overall),
     error |-> None]

\* mutant: the row is numbered by its place in the result list
ReceiptRowNumberedOnArrival(item, receipt, completion_time) ==
    [index |-> Len(results),
     account |-> item.account,
     tx_hash |-> Some(Hex(item.tx_hash)),
     status |-> receipt.status,
     gas_used |-> receipt.gasUsed,
     latency_sec |-> Some(completion_time - item.start_time),
     token_id |-> IF receipt.decodes THEN Some(TokenOf(item.index)) ELSE None,
     proposal_id |-> IF receipt.decodes THEN Some(ProposalId) ELSE None,
     labels |-> LabelString,
     phase |-> item.phase,
     submitted_sec |-> item.submission_time - start_overall,
     completed_sec |-> Some(completion_time - start_overall),
     error |-> None]

\* the row built when the receipt arrived at completion_time
ReceiptRow(item, receipt, completion_time) ==
    [index |-> item.index,
     account |-> item.account,
     tx_hash |-> Some(Hex(item.tx_hash)),
     status |-> receipt.status,
     gas_used |-> receipt.gasUsed,
     latency_sec |-> Some(completion_time - item.start_time),
     token_id |-> IF receipt.decodes THEN Some(TokenOf(item.index)) ELSE None,
     proposal_id |-> IF receipt.decodes THEN Some(ProposalId) ELSE None,
     labels |-> LabelString,
     phase |-> item.phase,
     submitted_sec |-> item.submission_time - start_overall,
     completed_sec |-> Some(completion_time - start_overall),
     error |-> None]

\* mutant: the timeout row keeps a success status
TimeoutRowStatusOne(item) ==
    [index |-> item.index,
     account |-> item.account,
     tx_hash |-> Some(Hex(item.tx_hash)),
     status |-> 1,
     gas_used |-> None,
     latency_sec |-> None,
     token_id |-> None,
     proposal_id |-> None,
     labels |-> LabelString,
     phase |-> item.phase,
     submitted_sec |-> item.submission_time - start_overall,
     completed_sec |-> None,
     error |-> None]

\* the row built in the except TimeExhausted clause
TimeoutRow(item) ==
    [index |-> item.index,
     account |-> item.account,
     tx_hash |-> Some(Hex(item.tx_hash)),
     status |-> 0,
     gas_used |-> None,
     latency_sec |-> None,
     token_id |-> None,
     proposal_id |-> None,
     labels |-> LabelString,
     phase |-> item.phase,
     submitted_sec |-> item.submission_time - start_overall,
     completed_sec |-> None,
     error |-> None]

\* the row built in the except Exception clause
ReceiptErrorRow(item) ==
    [TimeoutRow(item) EXCEPT !.error = Some("receipt")]

\* wait_for_transaction_receipt returns; completion_time is read
WReceipt(w) ==
    /\ wpc[w] = "wait"
    /\ \E t \in ClockReads, r \in Receipts :
         /\ now' = t
         /\ wrow' = [wrow EXCEPT ![w] = Some(ReceiptRow(witem[w][1], r, t))]
         /\ network' = [network EXCEPT
                          ![witem[w][1].index + 1].receipt = "receipt",
                          ![witem[w][1].index + 1].status = Some(r.status)]
    /\ wpc' = [wpc EXCEPT ![w] = "lock"]
    /\ UNCHANGED <<inputVars, subVars, queue, unfinished_tasks, results,
                   results_lock, witem>>

\* mutant: on a timeout the worker skips the append of the row
WTimeoutSkipsRow(w) ==
    /\ wpc[w] = "wait"
    /\ network' = [network EXCEPT ![witem[w][1].index + 1].receipt = "timeout"]
    /\ wpc' = [wpc EXCEPT ![w] = "task_done"]
    /\ UNCHANGED <<inputVars, now, subVars, queue, unfinished_tasks, results,
                   results_lock, witem, wrow>>

\* wait_for_transaction_receipt raises TimeExhausted
WTimeout(w) ==
    /\ wpc[w] = "wait"
    /\ wrow' = [wrow EXCEPT ![w] = Some(TimeoutRow(witem[w][1]))]
    /\ network' = [network EXCEPT ![witem[w][1].index + 1].receipt = "timeout"]
    /\ wpc' = [wpc EXCEPT ![w] = "lock"]
    /\ UNCHANGED <<inputVars, now, subVars, queue, unfinished_tasks, results,
                   results_lock, witem>>

\* wait_for_transaction_receipt raises another exception
WError(w) ==
    /\ wpc[w] = "wait"
    /\ wrow' = [wrow EXCEPT ![w] = Some(ReceiptErrorRow(witem[w][1]))]
    /\ network' = [network EXCEPT ![witem[w][1].index + 1].receipt = "error"]
    /\ wpc' = [wpc EXCEPT ![w] = "lock"]
    /\ UNCHANGED <<inputVars, now, subVars, queue, unfinished_tasks, results,
                   results_lock, witem>>

\* mutant: a worker enters the with block whether the lock is free or not
WAcquireUnguarded(w) ==
    /\ wpc[w] = "lock"
    /\ results_lock' = Some(w)
    /\ wpc' = [wpc EXCEPT ![w] = "append"]
    /\ UNCHANGED <<inputVars, now, subVars, queue, unfinished_tasks, results,
                   witem, wrow, network>>

\* finally: with results_lock: (acquire)
WAcquire(w) ==
    /\ wpc[w] = "lock"
    /\ results_lock = None
    /\ results_lock' = Some(w)
    /\ wpc' = [wpc EXCEPT ![w] = "append"]
    /\ UNCHANGED <<inputVars, now, subVars, queue, unfinished_tasks, results,
                   witem, wrow, network>>

\* results.append(row) and the release of the lock
WAppend(w) ==
    /\ wpc[w] = "append"
    /\ results' = Append(results, wrow[w][1])
    /\ results_lock' = None
    /\ wrow' = [wrow EXCEPT ![w] = None]
    /\ wpc' = [wpc EXCEPT ![w] = "task_done"]
    /\ UNCHANGED <<inputVars, now, subVars, queue, unfinished_tasks, witem,
                   network>>

\* mutant: the worker leaves its loop after one item
AfterItemBreaks == "exit"

\* where a worker goes after an item's task_done(): the while True loop
AfterItem == "get"

\* submission_queue.task_done(), then the next iteration of while True
WTaskDone(w) ==
    /\ wpc[w] = "task_done"
    /\ unfinished_tasks' = unfinished_tasks - 1
    /\ witem' = [witem EXCEPT ![w] = None]
    /\ wpc' = [wpc EXCEPT ![w] = AfterItem]
    /\ UNCHANGED <<inputVars, now, subVars, queue, results, results_lock,
                   wrow, network>>

SubmitterStep ==
    \/ PhasedEntry \/ PhasedInsufficient \/ SequentialEntry
    \/ Pace \/ Wake \/ Start \/ TransactOk \/ TransactRaises
    \/ SubAcquire \/ SubAppend \/ Finally
    \/ PutSentinel \/ QueueJoin \/ ThreadJoin
    \/ MeasureDuration \/ SortAndReturn

WorkerStep(w) ==
    /\ w \in DOMAIN wpc
    /\ \/ WGet(w) \/ WSentinel(w) \/ WExit(w)
       \/ WReceipt(w) \/ WTimeout(w) \/ WError(w)
       \/ WAcquire(w) \/ WAppend(w) \/ WTaskDone(w)

Next ==
    \/ PhasedEntry
    \/ PhasedInsufficient
    \/ SequentialEntry
    \/ Pace
    \/ Wake
    \/ Start
    \/ TransactOk
    \/ TransactRaises
    \/ SubAcquire
    \/ SubAppend
    \/ Finally
    \/ PutSentinel
    \/ QueueJoin
    \/ ThreadJoin
    \/ MeasureDuration
    \/ SortAndReturn
    \/ \E w \in DOMAIN wpc : WGet(w)
    \/ \E w \in DOMAIN wpc : WSentinel(w)
    \/ \E w \in DOMAIN wpc : WExit(w)
    \/ \E w \in DOMAIN wpc : WReceipt(w)
    \/ \E w \in DOMAIN wpc : WTimeout(w)
    \/ \E w \in DOMAIN wpc : WError(w)
    \/ \E w \in DOMAIN wpc : WAcquire(w)
    \/ \E w \in DOMAIN wpc : WAppend(w)
    \/ \E w \in DOMAIN wpc : WTaskDone(w)

Spec == Init /\ [][Next]_vars

\* the runs whose clock moves only by the pacing sleeps
FairInit == Init /\ clock_limit = 0

\* a live submitter thread and live worker threads each keep running;
\* termination does not depend on the clock's readings (a sleep always
\* returns), so the runs of FairInit are explored
FairSpec ==
    /\ FairInit
    /\ [][Next]_vars
    /\ WF_vars(SubmitterStep)
    /\ \A w \in 1..Max(1, MaxReceiptWorkers) : WF_vars(WorkerStep(w))

\* ---- parse_phase_spec as a specification of its own ----------------------
\* the parts the --phase values explored are put together from
CountParts ==
    { <<"1">>, <<"2">>, <<"0">>, <<"-", "1">>, <<"+", "2">>, <<" ", "1">>,
      <<"1", ".", "5">>, <<"x">>, <<>> }
Separators == { <<"@">>, <<>> }
Numerals ==
    { <<"1">>, <<"2">>, <<"4">>, <<"2", "5">>, <<"0", ".", "5">>,
      <<"0", ".", "2", "5">>, <<"0", ".", "0", "4">>, <<".", "5">>,
      <<"2", ".">>, <<"0">>, <<"0", ".", "0">>, <<"-", "1">>,
      <<"-", "0", ".", "5">>, <<"i", "n", "f">>, <<"-", "i", "n", "f">>,
      <<"n", "a", "n">>, <<"x">>, <<".">>, <<>> }
Suffixes ==
    { <<"t", "p", "s">>, <<"s">>, <<"T", "P", "S">>, <<" ", "s", " ">>,
      <<"t", "p">>, <<>> }

ParseInputs ==
    { c \o a \o n \o u :
        c \in CountParts, a \in Separators, n \in Numerals, u \in Suffixes }

\* no benchmark run is under way: the state of the run's variables while
\* only the argument handling of main is looked at
NoRun ==
    /\ receipt_workers = 1
    /\ clock_limit = 0
    /\ now = 0
    /\ pc = "entry"
    /\ index = 0
    /\ start_overall = 0
    /\ next_emit_time = 0
    /\ wake_at = 0
    /\ iteration_start = 0
    /\ sub_row = None
    /\ sentinels_put = 0
    /\ duration = None
    /\ queue = <<>>
    /\ unfinished_tasks = 0
    /\ results = <<>>
    /\ results_lock = None
    /\ wpc = <<>>
    /\ witem = <<>>
    /\ wrow = <<>>
    /\ network = <<>>

runVars == <<receipt_workers, clock_limit, now, pc, index, start_overall,
             next_emit_time, wake_at, iteration_start, sub_row,
             sentinels_put, duration, queue, unfinished_tasks, results,
             results_lock, wpc, witem, wrow, network>>

ParseInit ==
    /\ spec \in ParseInputs
    /\ parse_result = None
    /\ NoRun
    /\ phase_plan = None
    /\ voters = <<>>
    /\ schedule = <<>>
    /\ NoMain
    /\ NoStats

\* one call parse_phase_spec(spec)
ParsePhaseSpec ==
    /\ parse_result = None
    /\ parse_result' = Some(parse_phase_spec(spec))
    /\ UNCHANGED <<spec, runVars, phase_plan, voters, schedule, mainVars,
                   statsVars>>

ParseNext == ParsePhaseSpec

ParseSpec == ParseInit /\ [][ParseNext]_vars

\* ---- build_phase_plan and the argument handling of main ------------------
\* [label.strip() for label in text.split(",") if label.strip()]
PhaseLabels(text) ==
    SelectSeq([k \in 1..Len(Split(text, ",")) |-> Strip(Split(text, ",")[k])],
              LAMBDA label : label # <<>>)

\* a generated label numbered from 0
AutoLabelZeroBased(idx) == <<"p", "h", "a", "s", "e">> \o Str(idx)

\* f"phase{idx + 1}"
AutoLabel(idx) == <<"p", "h", "a", "s", "e">> \o Str(idx + 1)

\* the first item of phases that parse_phase_spec raises for
FirstRaising(phases) ==
    CHOOSE k \in 1..Len(phases) :
        /\ parse_phase_spec(phases[k]).raised
        /\ \A j \in 1..(k - 1) : ~parse_phase_spec(phases[j]).raised

\* the loop "for entry, label in zip(parsed, labels): entry['label'] = label"
WithLabels(parsed, labels) ==
    [k \in 1..Len(parsed) |->
        [count |-> parsed[k].count, tps |-> parsed[k].tps,
         interval |-> parsed[k].interval, label |-> labels[k]]]

\* build_phase_plan(args): None without phases, else the parsed phases with
\* their labels, or the ValueError of a phase or of the label count
build_phase_plan(phases, phase_labels) ==
    IF phases = <<>> THEN Returned(None)
    ELSE IF \E k \in 1..Len(phases) : parse_phase_spec(phases[k]).raised
    THEN Raised(parse_phase_spec(phases[FirstRaising(phases)]).msg)
    ELSE LET parsed == [k \in 1..Len(phases) |->
                           parse_phase_spec(phases[k]).value[1]]
         IN IF phase_labels # <<>>
            THEN IF Len(PhaseLabels(phase_labels)) # Len(parsed)
                 THEN Raised("Number of --phase-labels entries must match")
                 ELSE Returned(Some(WithLabels(parsed,
                                               PhaseLabels(phase_labels))))
            ELSE Returned(Some(WithLabels(parsed,
                     [k \in 1..Len(parsed) |-> AutoLabel(k - 1)])))

\* the --phase values and --phase-labels texts explored
PlanItems ==
    { <<"2", "@", "1", "t", "p", "s">>, <<"1", "@", "2", "s">>,
      <<"1", "@", "0", ".", "5", "s">>, <<"0", "@", "1", "t", "p", "s">>,
      <<"-", "1", "@", "1", "t", "p", "s">>, <<"x">> }
LabelTexts ==
    { <<>>, <<"a">>, <<"a", ",", "b">>, <<" ", "b", " ", ",", "a">>,
      <<"a", ",", ",", "b">>, <<"a", ",", "b", ",", "c">>, <<" ">>, <<",">> }

\* the accounts 1..n of the node
Accounts(n) == [i \in 1..n |-> i + 100]

\* s[:r]
SliceTo(s, r) ==
    IF r >= 0 THEN SubSeq(s, 1, IF r < Len(s) THEN r ELSE Len(s))
    ELSE SubSeq(s, 1, Max(0, Len(s) + r))

MainInit ==
    /\ args_phases \in UNION { [1..n -> PlanItems] : n \in 0..MaxPhases }
    /\ args_phase_labels \in LabelTexts
    /\ args_tx_count \in 0..MaxVoters
    /\ main_pc = "start"
    /\ phase_plan = None
    /\ voters = <<>>
    /\ schedule = <<>>
    /\ NoRun
    /\ NoParse
    /\ NoStats

\* phase_plan = build_phase_plan(args); a ValueError ends main ("fatal")
MainBuildPlan ==
    /\ main_pc = "start"
    /\ LET built == build_phase_plan(args_phases, args_phase_labels)
       IN IF built.raised
          THEN /\ main_pc' = "fatal"
               /\ UNCHANGED phase_plan
          ELSE /\ main_pc' = "tx_count"
               /\ phase_plan' = built.value[1]
    /\ UNCHANGED <<args_phases, args_phase_labels, args_tx_count, voters,
                   schedule, runVars, parseVars, statsVars>>

\* if phase_plan: args.tx_count = sum(entry["count"] for entry in phase_plan)
MainTxCount ==
    /\ main_pc = "tx_count"
    /\ args_tx_count' = IF Phased THEN SumCounts(Plan) ELSE args_tx_count
    /\ main_pc' = "accounts"
    /\ UNCHANGED <<args_phases, args_phase_labels, phase_plan, voters,
                   schedule, runVars, parseVars, statsVars>>

\* resolve_accounts(required = args.tx_count): n accounts are at hand, the
\* missing ones are created, and voters[:required] is returned
ResolveAccounts ==
    /\ main_pc = "accounts"
    /\ \E n \in 0..MaxVoters :
         voters' = SliceTo(Accounts(Max(n, args_tx_count)), args_tx_count)
    /\ main_pc' = "dispatch"
    /\ UNCHANGED <<args_phases, args_phase_labels, args_tx_count, phase_plan,
                   schedule, runVars, parseVars, statsVars>>

\* the number of list items the schedule loops of execute_phased_benchmark
\* read from voters
VotersRead(plan) == SumCounts([k \in 1..Len(plan) |->
                                  [count |-> RangeLen(plan[k].count)]])

\* execute_phased_benchmark up to the end of the schedule loops: the
\* ValueError of too few voters, the IndexError of voters[voter_index], or
\* the schedule
MainPhasedSchedule ==
    /\ main_pc = "dispatch"
    /\ Phased
    /\ IF SumCounts(Plan) > Len(voters)
       THEN main_pc' = "raised" /\ UNCHANGED schedule
       ELSE IF VotersRead(Plan) > Len(voters)
       THEN main_pc' = "index_error" /\ UNCHANGED schedule
       ELSE main_pc' = "scheduled" /\ schedule' = Expand(Plan, voters, 0)
    /\ UNCHANGED <<args_phases, args_phase_labels, args_tx_count, phase_plan,
                   voters, runVars, parseVars, statsVars>>

\* execute_sequential_benchmark: the loop runs over enumerate(voters)
MainFlatSchedule ==
    /\ main_pc = "dispatch"
    /\ ~Phased
    /\ main_pc' = "scheduled"
    /\ schedule' = Enumerate(voters)
    /\ UNCHANGED <<args_phases, args_phase_labels, args_tx_count, phase_plan,
                   voters, runVars, parseVars, statsVars>>

MainNext ==
    \/ MainBuildPlan
    \/ MainTxCount
    \/ ResolveAccounts
    \/ MainPhasedSchedule
    \/ MainFlatSchedule

MainSpec == MainInit /\ [][MainNext]_vars

\* ---- calculate_latency_stats as a specification of its own ---------------
MaxSamples == 21        \* most latencies of one list
MaxLatency == 23        \* the latencies are 1..MaxLatency

\* the lists explored: latency i is 1 + (a * i + b) mod m, which gives
\* ascending, descending and scattered lists, with many equal values
\* (m = 3) or with few (m = MaxLatency)
LatencyLists ==
    { [i \in 1..n |-> 1 + ((a * i + b) % 3)] :
        n \in 0..MaxSamples, a \in 0..2, b \in 0..2 }
    \cup
    { [i \in 1..n |-> 1 + ((a * i + b) % MaxLatency)] :
        n \in 0..MaxSamples, a \in {1, 5, MaxLatency - 1},
        b \in {0, 1, 2, MaxLatency - 1} }

StatsInit ==
    /\ latencies \in LatencyLists
    /\ stats_result = None
    /\ NoRun
    /\ NoParse
    /\ NoMain
    /\ phase_plan = None
    /\ voters = <<>>
    /\ schedule = <<>>

\* one call calculate_latency_stats(latencies)
CalculateLatencyStats ==
    /\ stats_result = None
    /\ stats_result' = Some(calculate_latency_stats(latencies))
    /\ UNCHANGED <<latencies, runVars, phase_plan, voters, schedule,
                   parseVars, mainVars>>

StatsNext == CalculateLatencyStats

StatsSpec == StatsInit /\ [][StatsNext]_vars

\* ---- properties ---------------------------------------------------------
Calls == 1..Len(network)

\* the positions of the result list that hold a row of call c (index c - 1)
RowsOf(c) == {k \in 1..Len(results) : results[k].index = c - 1}

\* call c is on the work queue
Queued(c) == \E k \in 1..Len(queue) : queue[k] # None /\ queue[k][1].index = c - 1

\* the workers holding call c
Holders(c) == {w \in DOMAIN wpc : witem[w] # None /\ witem[w][1].index = c - 1}

SubmitRaised(c) == network[c].transact = "raised"
ReceiptFailed(c) == network[c].receipt \in {"timeout", "error"}
ReceiptObtained(c) == network[c].receipt = "receipt"

\* a row of a call for which nothing was confirmed
IsFailureRow(r) ==
    r.status = 0 /\ r.latency_sec = None /\ r.completed_sec = None

AllTerminated == \A w \in DOMAIN wpc : wpc[w] = "terminated"

\* the number of calls the run was asked to make
TotalCalls == IF Phased THEN SumCounts(Plan) ELSE Len(voters)

\* C1: when a run has returned, the result list holds exactly one row per
\* scheduled call: its length is the number of scheduled calls and its row
\* indices are exactly 0 .. total-1, whatever the calls' outcomes were.
C1_OneRowPerCall ==
    pc = "done" =>
        /\ Len(schedule) = TotalCalls
        /\ Len(results) = TotalCalls
        /\ {results[k].index : k \in 1..Len(results)} = 0..(TotalCalls - 1)
        /\ \A c \in Calls : Cardinality(RowsOf(c)) = 1

\* a finished run of three calls: one failed to submit, one timed out, one
\* was confirmed
C1_Witness ==
    /\ pc = "done"
    /\ Len(results) = 3
    /\ \E a, b, c \in Calls :
         /\ SubmitRaised(a)
         /\ network[b].receipt = "timeout"
         /\ ReceiptObtained(c)

Ascending(rows) ==
    \A k \in 1..(Len(rows) - 1) : rows[k].index < rows[k + 1].index

\* C2: the returned result list is in strictly ascending order of index,
\* whatever order the rows were appended in.
C2_ReturnedInOrder == pc = "done" => Ascending(results)

\* the rows were appended out of submission order and the sort is next
C2_Witness ==
    /\ pc = "sort"
    /\ Len(results) >= 2
    /\ ~Ascending(results)

\* C3: a row with success status always has a latency, and the row of a
\* call whose submission failed or whose receipt wait failed never has
\* success status.
C3_SuccessHasLatency ==
    \A k \in 1..Len(results) :
        /\ results[k].status = 1 => results[k].latency_sec # None
        /\ (SubmitRaised(results[k].index + 1)
              \/ ReceiptFailed(results[k].index + 1)) => results[k].status # 1

\* the list holds a success row next to a row of a timed-out call
C3_Witness ==
    \E j, k \in 1..Len(results) :
        /\ results[j].status = 1
        /\ network[results[k].index + 1].receipt = "timeout"

\* the submitter is inside the except clause of call c, its row not yet
\* appended
SubmitterHandling(c) == pc \in {"lock", "append"} /\ index = c - 1

\* C4: a call whose submission raised gets exactly one row, appended by the
\* submitter: failure status, no latency, no completion offset, no hash and
\* the error text; it is never on the queue and no worker ever holds it.
C4_SubmitFailureRow ==
    \A c \in Calls : SubmitRaised(c) =>
        /\ ~Queued(c)
        /\ Holders(c) = {}
        /\ network[c].receipt = "pending"
        /\ IF SubmitterHandling(c)
           THEN RowsOf(c) = {} /\ sub_row # None /\ sub_row[1].index = c - 1
           ELSE /\ Cardinality(RowsOf(c)) = 1
                /\ \A k \in RowsOf(c) :
                     /\ IsFailureRow(results[k])
                     /\ results[k].tx_hash = None
                     /\ results[k].error # None

\* the row of a failed submission is in the list while another call is
\* queued or with a worker
C4_Witness ==
    \E c, d \in Calls :
        /\ SubmitRaised(c)
        /\ RowsOf(c) # {}
        /\ Queued(d) \/ Holders(d) # {}

\* the row of call c records what the network answered for call c
RowMatches(c) ==
    /\ Cardinality(RowsOf(c)) = 1
    /\ \A k \in RowsOf(c) :
         /\ SubmitRaised(c) => IsFailureRow(results[k]) /\ results[k].tx_hash = None
         /\ ReceiptFailed(c) => IsFailureRow(results[k]) /\ results[k].tx_hash # None
         /\ ReceiptObtained(c) =>
                results[k].latency_sec # None /\ results[k].completed_sec # None

AnyPerCallError == \E c \in Calls : SubmitRaised(c) \/ ReceiptFailed(c)

RunCompleted ==
    /\ pc = "done"
    /\ \A c \in Calls : network[c].transact # "pending" /\ RowMatches(c)

\* C5: no per-call error ends the run: once a submission has raised or a
\* receipt wait has failed, the run still attempts every scheduled call
\* and returns, with every call's row recording that call's own outcome.
C5_ErrorsNotFatal == AnyPerCallError ~> RunCompleted

\* a finished run in which the first call failed and a later one was
\* confirmed
C5_Witness ==
    /\ pc = "done"
    /\ Len(network) >= 2
    /\ SubmitRaised(1) \/ ReceiptFailed(1)
    /\ \E c \in Calls : c > 1 /\ ReceiptObtained(c) /\ RowMatches(c)

\* the row a worker holds for a failed receipt wait, before the append
PendingFailureRow(w, c) ==
    /\ wpc[w] \in {"lock", "append"}
    /\ wrow[w] # None
    /\ IsFailureRow(wrow[w][1])
    /\ wrow[w][1].index = c - 1
    /\ (wrow[w][1].error # None) <=> (network[c].receipt = "error")

C6_RowOfFailedWait ==
    \A c \in Calls : ReceiptFailed(c) =>
        IF RowsOf(c) = {}
        THEN /\ Cardinality(Holders(c)) = 1
             /\ \A w \in Holders(c) : PendingFailureRow(w, c)
        ELSE /\ Cardinality(RowsOf(c)) = 1
             /\ \A w \in Holders(c) : wpc[w] = "task_done"
             /\ \A k \in RowsOf(c) :
                  /\ IsFailureRow(results[k])
                  /\ (results[k].error # None) <=> (network[c].receipt = "error")

C6_WorkerGoesOn ==
    \A w \in DOMAIN wpc :
        (wpc[w] = "task_done" /\ wpc'[w] # "task_done") =>
            (wpc'[w] = "get" /\ witem'[w] = None)

\* C6: a call whose receipt wait timed out or raised gets exactly one row,
\* appended by the worker that held it: failure status, no latency, no
\* completion offset, and the error text exactly when it was not a
\* timeout; after the item's task_done() the worker is back at the
\* queue's get().
C6_ReceiptFailureRow == []C6_RowOfFailedWait /\ [][C6_WorkerGoesOn]_vars

\* a worker that appended the row of a failed wait holds the next item
C6_Witness ==
    \E w \in DOMAIN wpc, c, d \in Calls :
        /\ ReceiptFailed(c)
        /\ RowsOf(c) # {}
        /\ Len(wpc) = 1
        /\ d # c
        /\ w \in Holders(d)
        /\ wpc[w] = "wait"

SentinelsQueued == Cardinality({k \in 1..Len(queue) : queue[k] = None})
SentinelsTaken ==
    Cardinality({w \in DOMAIN wpc : wpc[w] \in {"sentinel", "exit", "terminated"}})

\* C7: max(1, receipt_workers) workers are started; sentinels are put only
\* once every scheduled call was attempted, one per worker; every sentinel
\* put is either still queued or was taken by a worker that ends on it;
\* when the run has returned every worker has ended and the queue is
\* empty.
C7_OneSentinelPerWorker ==
    /\ pc \notin {"entry", "raised"} =>
           Len(wpc) = (IF receipt_workers >= 1 THEN receipt_workers ELSE 1)
    /\ sentinels_put > 0 => index = Len(schedule)
    /\ sentinels_put <= Len(wpc)
    /\ SentinelsQueued + SentinelsTaken = sentinels_put
    /\ pc \in {"qjoin", "tjoin", "duration", "sort", "done"} =>
           sentinels_put = Len(wpc)
    /\ pc = "done" => AllTerminated /\ queue = <<>>

\* a finished run of two workers, each ended by its own sentinel
C7_Witness ==
    /\ pc = "done"
    /\ Len(wpc) = 2
    /\ sentinels_put = 2
    /\ AllTerminated
    /\ Len(results) = 2

\* C8: with the submitter and the workers scheduled fairly and every
\* network call answering, the run ends: the submitter passes both joins
\* and returns (or the run was refused before it began).
C8_RunTerminates == <>(pc = "done" \/ pc = "raised")

\* a run of two workers that returned after a failed receipt wait
C8_Witness ==
    /\ pc = "done"
    /\ Len(wpc) = 2
    /\ \E c \in Calls : ReceiptFailed(c)

C9_Drained ==
    (duration # None \/ pc \in {"sort", "done"}) =>
        /\ duration # None
        /\ unfinished_tasks = 0
        /\ queue = <<>>
        /\ \A w \in DOMAIN wpc : wpc[w] = "terminated"
        /\ results_lock = None

C9_NoLateRow ==
    duration # None => Len(results') = Len(results)

\* C9: the duration is measured, and the list sorted and returned, only
\* when every queued item was marked done and every worker has ended;
\* from the measurement on no row is appended.
C9_DurationAfterDrain == []C9_Drained /\ [][C9_NoLateRow]_vars

\* the duration was measured in a run whose two workers appended rows
C9_Witness ==
    /\ pc = "sort"
    /\ duration # None
    /\ Len(wpc) = 2
    /\ \E j, k \in 1..Len(results) :
         j # k /\ results[j].tx_hash # None /\ results[k].tx_hash # None

RECURSIVE SumIntervals(_, _)
\* the pacing intervals of the first k scheduled calls, added up
SumIntervals(sched, k) ==
    IF k = 0 THEN 0 ELSE sched[k].interval + SumIntervals(sched, k - 1)

\* C10: in a phased run the first call is never paced (no clock check, no
\* sleep), and the attempt of call k >= 1 starts no earlier than the run's
\* start plus the intervals of calls 0 .. k-1.
C10_PacingLowerBound ==
    /\ pc \in {"pace", "sleep"} => Phased /\ index > 0
    /\ (Phased /\ pc = "transact" /\ index >= 1) =>
           iteration_start >= start_overall + SumIntervals(schedule, index)

\* the third call starts exactly two intervals after the start
C10_Witness ==
    /\ Phased
    /\ pc = "transact"
    /\ index = 2
    /\ iteration_start = start_overall + SumIntervals(schedule, 2)

\* the attempt of call k+1 starts one interval of call k after the start of
\* the attempt of call k: at the step that reads iteration_start for the
\* item after the first, the old value is the start of the attempt before
C11_StartsOneIntervalApart ==
    (Phased /\ pc = "start" /\ pc' = "transact" /\ index >= 1) =>
        iteration_start' >= iteration_start + schedule[index].interval

\* C11 as stated: consecutive attempts are never closer than the interval
\* of the earlier call, under any advance of the clock.
C11_NeverFasterThanRate == [][C11_StartsOneIntervalApart]_vars

C11_DeadlineAdvances ==
    (Phased /\ pc = "finally" /\ pc' # "finally") =>
        next_emit_time' >= next_emit_time + Item.interval

\* C11 amended: every attempt starts at or after the deadline in force for
\* it, and the deadline for call k+1 is at least the deadline for call k
\* plus the interval of call k; the distance to the start of the attempt
\* of call k is shorter than that interval when call k started late.
C11_NeverBeforeDeadline ==
    /\ [](Phased /\ pc = "transact" => iteration_start >= next_emit_time)
    /\ [][C11_DeadlineAdvances]_vars

\* a call that started after its deadline: the next deadline is less than
\* one interval after that start
C11_Witness ==
    /\ Phased
    /\ pc = "finally"
    /\ iteration_start > next_emit_time
    /\ index + 1 < Len(schedule)

\* ---- C12 ----------------------------------------------------------------
InsufficientVoters == Phased /\ SumCounts(Plan) > Len(voters)

C12_NothingStarted ==
    InsufficientVoters =>
        /\ pc \in {"entry", "raised"}
        /\ wpc = <<>>
        /\ schedule = <<>>
        /\ network = <<>>
        /\ queue = <<>>
        /\ unfinished_tasks = 0
        /\ results = <<>>

C12_EntryRaises == (InsufficientVoters /\ pc = "entry") => pc' = "raised"

\* C12: when the plan's total count exceeds the number of voters,
\* execute_phased_benchmark raises, and it does so with no worker thread
\* started, no schedule built, no transaction sent, nothing queued and no
\* row recorded; only a run with too few voters raises.
C12_InsufficientFailsFirst ==
    /\ []C12_NothingStarted
    /\ [](pc = "raised" => InsufficientVoters)
    /\ [][C12_EntryRaises]_vars

C12_Witness ==
    /\ pc = "raised"
    /\ Len(voters) >= 1
    /\ SumCounts(Plan) > Len(voters)

\* ---- C13 ----------------------------------------------------------------
\* C13: for every plan build_phase_plan returns, the schedule that
\* execute_phased_benchmark generates has sum(phase.count) calls, and that
\* sum is the tx_count of the run.
C13_ScheduleCount ==
    (Phased /\ main_pc \in {"dispatch", "scheduled", "index_error"}) =>
        /\ args_tx_count = SumCounts(Plan)
        /\ main_pc # "index_error"
        /\ main_pc = "scheduled" => Len(schedule) = SumCounts(Plan)

\* ---- C14 ----------------------------------------------------------------
\* the phase whose range of cumulative counts holds the sequence index i
PhaseOfIndex(plan, i) ==
    CHOOSE p \in 1..Len(plan) :
        /\ SumCounts(SubSeq(plan, 1, p - 1)) <= i
        /\ i < SumCounts(SubSeq(plan, 1, p))

\* C14: in a phased run the scheduled call of sequence index i uses
\* voters[i], no two scheduled calls use the same account, and the call has
\* the label and the interval of the phase whose cumulative count range
\* holds i, so the phases are contiguous segments in plan order.
C14_ScheduleInOrder ==
    (Phased /\ schedule # <<>>) =>
        /\ \A k \in 1..Len(schedule) :
              /\ schedule[k].index = k - 1
              /\ schedule[k].account = voters[k]
              /\ schedule[k].phase
                    = Some(Plan[PhaseOfIndex(Plan, k - 1)].label)
              /\ schedule[k].interval
                    = Plan[PhaseOfIndex(Plan, k - 1)].interval
        /\ \A j, k \in 1..Len(schedule) :
              schedule[j].account = schedule[k].account => j = k

C14_Witness ==
    /\ Phased
    /\ Len(Plan) >= 2
    /\ Len(schedule) >= 3
    /\ schedule[1].phase # schedule[Len(schedule)].phase
    /\ schedule[1].interval # schedule[Len(schedule)].interval

\* ---- C15, C16, C17: parse_phase_spec --------------------------------------
Parsed == parse_result # None
ParseRaised == Parsed /\ parse_result[1].raised
ParseReturned == Parsed /\ ~parse_result[1].raised
ParsedPhase == parse_result[1].value[1]

\* the parts of a --phase value as the claims name them
HasSeparator(s) == Contains(s, "@")
CountText(s) == SplitOnce(s, "@")[1]
RateText(s) == Lower(Strip(SplitOnce(s, "@")[2]))
HasTpsSuffix(s) == EndsWith(RateText(s), <<"t", "p", "s">>)
HasSecondsSuffix(s) == ~HasTpsSuffix(s) /\ EndsWith(RateText(s), <<"s">>)
RateNumeral(s) ==
    Strip(DropLast(RateText(s), IF HasTpsSuffix(s) THEN 3 ELSE 1))
IsNumeral(n) == IsDecimal(Unsigned(n))
NumeralPositive(n) == IsNumeral(n) /\ SignOf(n) = 1 /\ DecimalNum(Unsigned(n)) > 0
CountIsPositiveInteger(s) ==
    /\ ~PyInt(CountText(s)).raised
    /\ PyInt(CountText(s)).value[1] > 0

\* C15: parse_phase_spec raises for every specification whose count is not a
\* positive integer (0 and negative integers included), and the count of a
\* phase it returns is greater than 0.
C15_CountPositive ==
    /\ (Parsed /\ HasSeparator(spec) /\ ~CountIsPositiveInteger(spec))
          => ParseRaised
    /\ ParseReturned => ParsedPhase.count > 0

\* C16: parse_phase_spec raises for every specification without "@", for
\* every rate with neither the "tps" nor the "s" suffix and for every rate
\* whose value is zero or negative; the tps and the interval of every phase
\* it returns are greater than 0.
C16_RateChecked ==
    /\ (Parsed /\ ~HasSeparator(spec)) => ParseRaised
    /\ (Parsed /\ HasSeparator(spec) /\ ~HasTpsSuffix(spec)
               /\ ~HasSecondsSuffix(spec)) => ParseRaised
    /\ (Parsed /\ HasSeparator(spec)
               /\ (HasTpsSuffix(spec) \/ HasSecondsSuffix(spec))
               /\ IsNumeral(RateNumeral(spec))
               /\ ~NumeralPositive(RateNumeral(spec))) => ParseRaised
    /\ ParseReturned =>
          /\ FloatGtZero(ParsedPhase.tps)
          /\ FloatGtZero(ParsedPhase.interval)

\* two numerals X and Y with X * Y = 1
Reciprocals(x, y) ==
    /\ NumeralPositive(x)
    /\ NumeralPositive(y)
    /\ DecimalNum(Unsigned(x)) * DecimalNum(Unsigned(y))
          = DecimalDen(Unsigned(x)) * DecimalDen(Unsigned(y))

\* two --phase values that state the same rate, one as Xtps and one as Ys
EquivalentRates(s, t) ==
    /\ HasSeparator(s) /\ HasSeparator(t)
    /\ PyInt(CountText(s)) = PyInt(CountText(t))
    /\ HasTpsSuffix(s)
    /\ HasSecondsSuffix(t)
    /\ Reciprocals(RateNumeral(s), RateNumeral(t))

SamePhase(p, q) ==
    /\ p.count = q.count
    /\ FloatEq(p.tps, q.tps)
    /\ FloatEq(p.interval, q.interval)

\* C17: for a valid "N@Xtps" the phase has tps = X and interval = 1/X, for
\* a valid "N@Ys" it has interval = Y and tps = 1/Y, and two valid
\* specifications of the same rate (X = 1/Y) yield the same tps and interval.
C17_NotationsAgree ==
    ParseReturned =>
        /\ HasTpsSuffix(spec) =>
              /\ FloatEq(ParsedPhase.tps, PyFloat(RateNumeral(spec)).value[1])
              /\ FloatEq(ParsedPhase.interval, Reciprocal(ParsedPhase.tps))
        /\ HasSecondsSuffix(spec) =>
              /\ FloatEq(ParsedPhase.interval,
                         PyFloat(RateNumeral(spec)).value[1])
              /\ FloatEq(ParsedPhase.tps, Reciprocal(ParsedPhase.interval))
        /\ \A t \in ParseInputs :
              (EquivalentRates(spec, t) \/ EquivalentRates(t, spec)) =>
                  /\ ~parse_phase_spec(t).raised
                  /\ SamePhase(ParsedPhase, parse_phase_spec(t).value[1])

\* ---- C18 ----------------------------------------------------------------
PlanBuilt == main_pc # "start" /\ main_pc # "run"
AllPhasesParse ==
    \A k \in 1..Len(args_phases) : ~parse_phase_spec(args_phases[k]).raised
LabelsSupplied == args_phase_labels # <<>>

\* C18: with phases that parse, build_phase_plan raises when labels are
\* supplied and their number differs from the number of phases; with as
\* many labels as phases, phase i has the i-th label; without labels phase
\* i (from 0) has the label "phase<i+1>"; the plan has the phases of the
\* arguments, as many and in the same order.
C18_LabelsAssigned ==
    (PlanBuilt /\ args_phases # <<>> /\ AllPhasesParse) =>
        /\ (LabelsSupplied
              /\ Len(PhaseLabels(args_phase_labels)) # Len(args_phases))
                 => main_pc = "fatal"
        /\ (LabelsSupplied
              /\ Len(PhaseLabels(args_phase_labels)) = Len(args_phases))
                 => /\ Phased
                    /\ \A i \in 1..Len(args_phases) :
                          Plan[i].label = PhaseLabels(args_phase_labels)[i]
        /\ ~LabelsSupplied
                 => /\ Phased
                    /\ \A i \in 1..Len(args_phases) :
                          Plan[i].label
                             = <<"p", "h", "a", "s", "e", Digits[i + 1]>>
        /\ Phased
                 => /\ Len(Plan) = Len(args_phases)
                    /\ \A i \in 1..Len(args_phases) :
                          /\ Plan[i].count
                                = parse_phase_spec(args_phases[i]).value[1].count
                          /\ Plan[i].interval
                                = parse_phase_spec(args_phases[i]).value[1].interval
                          /\ Plan[i].tps
                                = parse_phase_spec(args_phases[i]).value[1].tps

C18_Witness ==
    /\ PlanBuilt
    /\ Phased
    /\ Len(Plan) = 2
    /\ LabelsSupplied
    /\ Plan[1].label = <<"b">>
    /\ Plan[2].label = <<"a">>
    /\ Plan[1].count # Plan[2].count


\* ---- C19 ----------------------------------------------------------------
\* C19: without phases build_phase_plan returns None and the run is flat:
\* one call is attempted per voter, the row of sequence index i is that of
\* voters[i], every row has phase None, and the per-phase latency breakdown
\* is empty.
C19_FlatRun ==
    (~Phased /\ pc = "done") =>
        /\ \A t \in LabelTexts : build_phase_plan(<<>>, t) = Returned(None)
        /\ Len(network) = Len(voters)
        /\ \A c \in Calls : network[c].transact # "pending"
        /\ Len(results) = Len(voters)
        /\ \A k \in 1..Len(results) :
              /\ results[k].index = k - 1
              /\ results[k].account = voters[k]
              /\ results[k].phase = None
        /\ DOMAIN collect_latency_breakdown(results, phase_plan)[2] = {}

C19_Witness ==
    /\ ~Phased
    /\ pc = "done"
    /\ Len(results) >= 2
    /\ \E k \in 1..Len(results) : results[k].latency_sec # None
    /\ \E k \in 1..Len(results) : IsFailureRow(results[k])

\* ---- C20 ----------------------------------------------------------------
StatsDone == stats_result # None
Stats == stats_result[1][1]
CountBelow(values, v) ==
    Cardinality({k \in 1..Len(values) : values[k] < v})
CountUpTo(values, v) ==
    Cardinality({k \in 1..Len(values) : values[k] <= v})
\* the least integer c with c >= 0.95 * n
Ceil95(n) == CHOOSE c \in 0..n : 100 * c >= 95 * n /\ 100 * (c - 1) < 95 * n
P95Index(n) == Max(0, Ceil95(n) - 1)

\* C20: for n >= 1 latencies the p95 of calculate_latency_stats is the
\* element at index max(0, ceil(0.95 * n) - 1), from 0, of the list in
\* ascending order (at most that many latencies are smaller, more than that
\* many are not larger); it is one of the latencies and it is at most the
\* max reported.
C20_P95IsOrderStatistic ==
    (StatsDone /\ latencies # <<>>) =>
        /\ stats_result[1] # None
        /\ \E k \in 1..Len(latencies) : latencies[k] = Stats.p95[1]
        /\ CountBelow(latencies, Stats.p95[1]) <= P95Index(Len(latencies))
        /\ CountUpTo(latencies, Stats.p95[1]) > P95Index(Len(latencies))
        /\ Stats.p95[1] <= Stats.max[1]
        /\ \A k \in 1..Len(latencies) : latencies[k] <= Stats.max[1]

C20_Witness ==
    /\ StatsDone
    /\ Len(latencies) >= 20
    /\ Stats.p95[1] < Stats.max[1]
    /\ Stats.p95[1] # latencies[P95Index(Len(latencies)) + 1]

\* ---- C21 ----------------------------------------------------------------
OneToTen == [i \in 1..10 |-> i]

\* C21 as stated: for the latencies 1, 2, ..., 10 the p95 is the value at
\* index 8 (from 0) of the ascending list, which is 9; the average is 5.5,
\* the max 10 and the count 10.
C21_ExampleAsStated ==
    (StatsDone /\ latencies = OneToTen) =>
        /\ Stats.p95[1] = Sorted(latencies)[8 + 1]
        /\ Stats.p95[1] = 9
        /\ 2 * Stats.avg[1].num = 11 * Stats.avg[1].den
        /\ Stats.max[1] = 10
        /\ Stats.count = 10

\* C21 amended: for the latencies 1, 2, ..., 10 the p95 is the value at
\* index ceil(9.5) - 1 = 9 (from 0) of the ascending list, which is 10;
\* the average is 5.5, the max 10 and the count 10.
C21_Example ==
    (StatsDone /\ latencies = OneToTen) =>
        /\ stats_result[1] # None
        /\ Stats.p95[1] = Sorted(latencies)[9 + 1]
        /\ Stats.p95[1] = 10
        /\ 2 * Stats.avg[1].num = 11 * Stats.avg[1].den
        /\ Stats.max[1] = 10
        /\ Stats.count = 10

C21_Witness == StatsDone /\ latencies = OneToTen /\ Stats.count = 10

\* ---- C22 ----------------------------------------------------------------
RECURSIVE SumFromEnd(_, _)
\* values[1] + ... + values[k]
SumFromEnd(values, k) ==
    IF k = 0 THEN 0 ELSE values[k] + SumFromEnd(values, k - 1)

\* C22: calculate_latency_stats returns None for an empty list; for a
\* non-empty list the count is the length of the list, the max is its
\* largest value and the avg is the sum of the values over their number.
C22_CountMaxMean ==
    StatsDone =>
        /\ latencies = <<>> => stats_result[1] = None
        /\ latencies # <<>> =>
              /\ stats_result[1] # None
              /\ Stats.count = Len(latencies)
              /\ \E k \in 1..Len(latencies) : latencies[k] = Stats.max[1]
              /\ \A k \in 1..Len(latencies) : latencies[k] <= Stats.max[1]
              /\ Stats.avg[1].num * Len(latencies)
                    = SumFromEnd(latencies, Len(latencies)) * Stats.avg[1].den
              /\ Stats.avg[1].den > 0

C22_Witness ==
    /\ StatsDone
    /\ Len(latencies) >= 3
    /\ Stats.max[1] # latencies[Len(latencies)]
    /\ Stats.max[1] # latencies[1]
    /\ Stats.avg[1].num % Stats.avg[1].den # 0

\* ---- C23, C24 -----------------------------------------------------------
\* what main hands to the report once the run has returned
Breakdown == collect_latency_breakdown(results, phase_plan)
PlanLabels == IF Phased THEN {Plan[k].label : k \in 1..Len(Plan)} ELSE {}
TimedRows == {k \in 1..Len(results) : results[k].latency_sec # None}
TimedRowsOf(label) == {k \in TimedRows : results[k].phase = Some(label)}

\* the rows of the run with the label of some of them removed, and the
\* plans that configure the first phases only: result lists and plans
\* that hold unlabelled rows next to a plan, and labels the plan lacks
Unlabelled(rows, mask) ==
    [k \in 1..Len(rows) |->
       IF k \in mask THEN [rows[k] EXCEPT !.phase = None] ELSE rows[k]]
ShorterPlans ==
    IF Phased THEN {Some(SubSeq(Plan, 1, n)) : n \in 1..Len(Plan)}
    ELSE {None}
LabelsOf(plan) ==
    IF plan = None THEN {} ELSE {plan[1][k].label : k \in 1..Len(plan[1])}
TimedIn(rows, label) ==
    {k \in 1..Len(rows) :
        rows[k].latency_sec # None /\ rows[k].phase = Some(label)}

\* C23: the labels of the per-phase breakdown are the labels of the plan,
\* no more and no fewer; a phase no row of which has a latency is listed
\* with count 0 and avg, p95 and max None, and the label of a row that the
\* plan does not configure is not listed.
C23_BreakdownLabels ==
    pc = "done" =>
        \A mask \in SUBSET (1..Len(results)), plan \in ShorterPlans :
            LET rows == Unlabelled(results, mask)
                by_phase == collect_latency_breakdown(rows, plan)[2]
            IN /\ DOMAIN by_phase = LabelsOf(plan)
               /\ \A label \in LabelsOf(plan) :
                     IF TimedIn(rows, label) = {}
                     THEN by_phase[label]
                            = [count |-> 0, avg |-> None,
                               p95 |-> None, max |-> None]
                     ELSE /\ by_phase[label].count >= 1
                          /\ by_phase[label].max # None

C23_Witness ==
    /\ pc = "done"
    /\ Phased
    /\ Len(Plan) = 2
    /\ TimedRowsOf(Plan[1].label) = {}
    /\ TimedRowsOf(Plan[2].label) # {}
    /\ Breakdown[2][Plan[1].label].count = 0
    /\ DOMAIN collect_latency_breakdown(results, Some(<<Plan[1]>>))[2]
          = {Plan[1].label}

RECURSIVE SumBucketCounts(_, _)
\* the counts of the buckets of a set of labels, added up
SumBucketCounts(buckets, labels) ==
    IF labels = {} THEN 0
    ELSE LET l == CHOOSE x \in labels : TRUE
         IN buckets[l].count + SumBucketCounts(buckets, labels \ {l})

\* C24: every row with a latency is counted in the overall statistics; a
\* row with a latency and no label is counted in no phase bucket, a row
\* with a latency and a label of the plan in the bucket of its label and
\* in no other.  (The rows of a phased run all carry a label of the plan.)
C24_BucketsByLabel ==
    pc = "done" =>
        /\ \A k \in TimedRows :
              results[k].phase # None =>
                 results[k].phase[1] \in DOMAIN Breakdown[2]
        /\ \A mask \in SUBSET (1..Len(results)) :
              LET rows == Unlabelled(results, mask)
                  timed == {k \in 1..Len(rows) : rows[k].latency_sec # None}
                  both == collect_latency_breakdown(rows, phase_plan)
              IN /\ IF timed = {} THEN both[1] = None
                    ELSE /\ both[1] # None
                         /\ both[1][1].count = Cardinality(timed)
                 /\ \A label \in DOMAIN both[2] :
                       both[2][label].count
                         = Cardinality(TimedIn(rows, label))
                 /\ SumBucketCounts(both[2], DOMAIN both[2])
                       = Cardinality({k \in timed : rows[k].phase # None})

C24_Witness ==
    /\ pc = "done"
    /\ Phased
    /\ Len(Plan) = 2
    /\ Cardinality(TimedRowsOf(Plan[1].label)) = 2
    /\ Cardinality(TimedRowsOf(Plan[2].label)) = 1
    /\ Breakdown[1][1].count = 3
    /\ SumBucketCounts(
          collect_latency_breakdown(Unlabelled(results, {1}), phase_plan)[2],
          PlanLabels) = 2

\* ---- C25 ----------------------------------------------------------------
\* a summary that divides by the duration whatever it is
benchmark_summary_unguarded(rows, dur) ==
    LET success_count ==
            Cardinality({k \in 1..Len(rows) : rows[k].status = 1})
    IN [success_count |-> success_count,
        failure_count |-> Len(rows) - success_count,
        tps |-> IF dur = 0 THEN Raised("division by zero")
                ELSE Returned([num |-> success_count, den |-> dur])]

\* the summary main prints: success_count, failure_count and
\* tps = success_count / duration if duration > 0 else 0.0, the quotient
\* kept as a fraction
benchmark_summary(rows, dur) ==
    LET success_count ==
            Cardinality({k \in 1..Len(rows) : rows[k].status = 1})
    IN [success_count |-> success_count,
        failure_count |-> Len(rows) - success_count,
        tps |-> IF dur > 0
                THEN Returned([num |-> success_count, den |-> dur])
                ELSE Returned([num |-> 0, den |-> 1])]

SummaryOfRun == benchmark_summary(results, duration[1])
SuccessRows == SelectSeq(results, LAMBDA row : row.status = 1)

\* C25: the throughput is the number of rows with status 1 divided by the
\* duration when the duration is positive and zero when the duration is
\* zero, its computation never raises, and success count plus failure
\* count is the number of rows.
C25_Throughput ==
    pc = "done" =>
        /\ ~SummaryOfRun.tps.raised
        /\ SummaryOfRun.tps.value[1].den > 0
        /\ duration[1] >= 0
        /\ duration[1] > 0 =>
              SummaryOfRun.tps.value[1].num * duration[1]
                = Len(SuccessRows) * SummaryOfRun.tps.value[1].den
        /\ duration[1] = 0 => SummaryOfRun.tps.value[1].num = 0
        /\ SummaryOfRun.success_count = Len(SuccessRows)
        /\ SummaryOfRun.failure_count >= 0
        /\ SummaryOfRun.success_count + SummaryOfRun.failure_count
             = Len(results)

C25_Witness ==
    /\ pc = "done"
    /\ duration[1] = 2
    /\ SummaryOfRun.success_count = 1
    /\ SummaryOfRun.failure_count >= 1
    /\ SummaryOfRun.tps.value[1] = [num |-> 1, den |-> 2]

\* ---- C26 ----------------------------------------------------------------
\* the threads inside a with results_lock block
InLockedBlock ==
    {w \in DOMAIN wpc : wpc[w] = "append"}
        \cup (IF pc = "append" THEN {Submitter} ELSE {})

\* C26: at most one thread is inside a with results_lock block, and it is
\* the holder of the lock; the result list grows only by a step of the
\* holder, which releases the lock; a thread that waits for a receipt,
\* submits, sleeps or waits on the queue does not hold the lock, so a
\* worker that has its row enters the block as soon as no thread is in
\* it, whatever the other workers wait for.
C26_AppendsSerialized ==
    /\ [](/\ Cardinality(InLockedBlock) <= 1
          /\ results_lock = None => InLockedBlock = {}
          /\ results_lock # None => InLockedBlock = {results_lock[1]}
          /\ \A w \in DOMAIN wpc :
                /\ wpc[w] = "append" => ENABLED WAppend(w)
                /\ wpc[w] = "lock" /\ InLockedBlock = {}
                     => ENABLED WAcquire(w)
          /\ pc = "append" => ENABLED SubAppend
          /\ pc = "lock" /\ InLockedBlock = {} => ENABLED SubAcquire)
    /\ [][(results' # results /\ pc # "sort") =>
            /\ results_lock # None
            /\ results_lock' = None
            /\ Len(results') = Len(results) + 1
            /\ SubSeq(results', 1, Len(results)) = results
            /\ IF results_lock[1] = Submitter
               THEN pc = "append" /\ pc' # "append"
               ELSE /\ wpc[results_lock[1]] = "append"
                    /\ wpc'[results_lock[1]] = "task_done"]_vars

\* a worker is in the block while the other waits for a receipt
C26_Witness ==
    /\ DOMAIN wpc = 1..2
    /\ wpc[1] = "wait"
    /\ wpc[2] = "append"
    /\ results_lock = Some(2)
    /\ ENABLED WAppend(2)

\* ---- C27 ----------------------------------------------------------------
\* C27: the put of a submitted call and the put of a sentinel are possible
\* whatever the queue holds and whatever the workers do, and the put of a
\* call returns before the call has any receipt outcome: the submitter
\* goes on with the item queued and its confirmation pending.
C27_PutNeverBlocks ==
    /\ [](/\ pc = "transact" => ENABLED TransactOk
          /\ pc = "sentinels" => ENABLED PutSentinel)
    /\ [][(pc = "transact" /\ Len(queue') = Len(queue) + 1) =>
            /\ pc' # "transact"
            /\ queue'[Len(queue')] # None
            /\ queue'[Len(queue')][1].index = Item.index
            /\ network'[index + 1].transact = "ok"
            /\ network'[index + 1].receipt = "pending"
            /\ results' = results]_vars

\* every call was attempted and every sentinel was put although no worker
\* has taken anything from the queue: two calls are pending confirmation
C27_Witness ==
    /\ pc = "qjoin"
    /\ results = <<>>
    /\ \A w \in DOMAIN wpc : wpc[w] = "get"
    /\ Len(schedule) = 2
    /\ Len(queue) = Len(schedule) + SentinelCount
    /\ \A c \in 1..Len(schedule) :
          network[c].transact = "ok" /\ network[c].receipt = "pending"

\* ---- C28 ----------------------------------------------------------------
\* the step that ends an iteration of the phased loop
C28_EndOfIteration == Phased /\ index' # index

\* C28: an iteration of the phased loop ends, after a submission or after
\* a failure row, only through the update of the deadline to the larger of
\* the previous deadline plus the interval of the call just attempted and
\* the clock read at that moment: the new deadline is not behind that
\* clock and at least one interval after the previous one.  An attempt in
\* turn never starts before the deadline in force.
C28_DeadlineUpdate ==
    /\ [][C28_EndOfIteration =>
            /\ pc = "finally"
            /\ index' = index + 1
            /\ network[index + 1].transact \in {"ok", "raised"}
            /\ next_emit_time'
                 = IF next_emit_time + Item.interval >= now'
                   THEN next_emit_time + Item.interval
                   ELSE now'
            /\ next_emit_time' >= now'
            /\ next_emit_time' >= next_emit_time + Item.interval
            /\ now' >= now]_vars
    /\ [][(Phased /\ pc = "transact" /\ pc' # "transact") =>
            pc' \in {"finally", "lock"}]_vars
    /\ [][(Phased /\ pc = "append") => pc' \in {"append", "finally"}]_vars
    /\ [][(Phased /\ pc = "start" /\ pc' = "transact") =>
            iteration_start' >= next_emit_time]_vars

\* the update after a submission that raised, so late that the clock is
\* past the previous deadline plus the interval, with a call left to pace
C28_Witness ==
    /\ Phased
    /\ pc = "finally"
    /\ network[index + 1].transact = "raised"
    /\ now > next_emit_time + Item.interval
    /\ index + 1 < Len(schedule)

\* ---- C29 ----------------------------------------------------------------
\* the positions of the work queue that hold call c
QueuePositions(c) ==
    {k \in 1..Len(queue) : queue[k] # None /\ queue[k][1].index = c - 1}

\* a step in which worker w takes an item from the queue
C29_Takes(w) == wpc[w] = "get" /\ wpc'[w] # "get"

\* C29: the queue holds the calls in the order of their submission and
\* the sentinels behind them, sentinels being put only when every
\* scheduled call has been attempted; a get takes the oldest item, so a
\* worker that takes a sentinel leaves no call on the queue; a call is on
\* the queue at most once, is held by at most one worker, never returns
\* to the queue once taken, and has been taken when the run is over.
C29_FifoAndSentinelsLast ==
    /\ [](/\ \A i, j \in 1..Len(queue) :
                i < j =>
                  /\ queue[i] = None => queue[j] = None
                  /\ (queue[i] # None /\ queue[j] # None)
                       => queue[i][1].index < queue[j][1].index
          /\ (sentinels_put > 0 \/ \E k \in 1..Len(queue) : queue[k] = None)
                => /\ index = Len(schedule)
                   /\ \A c \in Calls : network[c].transact # "pending"
          /\ \A c \in Calls :
                /\ Cardinality(QueuePositions(c))
                     + Cardinality(Holders(c)) <= 1
                /\ network[c].transact # "ok"
                     => QueuePositions(c) = {} /\ Holders(c) = {}
                /\ (pc = "done" /\ network[c].transact = "ok")
                     => /\ QueuePositions(c) = {}
                        /\ network[c].receipt # "pending")
    /\ [][\A w \in DOMAIN wpc :
            C29_Takes(w) =>
              /\ queue # <<>>
              /\ witem'[w] = Head(queue)
              /\ queue' = Tail(queue)
              /\ wpc'[w] = "sentinel"
                   => \A k \in 1..Len(queue) : queue[k] = None
              /\ wpc'[w] = "wait"
                   => /\ Head(queue) # None
                      /\ \A v \in DOMAIN wpc \ {w} :
                            witem[v] # Head(queue)]_vars
    /\ [][\A c \in Calls :
            (c <= Len(network') /\ network[c].transact # "pending"
               /\ QueuePositions(c) = {})
              => \A k \in 1..Len(queue') :
                    queue'[k] = None \/ queue'[k][1].index # c - 1]_vars

\* a worker has taken a sentinel while the other still waits for the
\* receipt of the call it took: the queue holds the other sentinel only
C29_Witness ==
    /\ DOMAIN wpc = 1..2
    /\ wpc[1] = "sentinel"
    /\ wpc[2] = "wait"
    /\ witem[2] # None
    /\ queue = <<None>>

\* ---- C30 ----------------------------------------------------------------
\* what the schedule and the answers of the network to call c say about
\* its row: neither the worker that handled it nor any instant enters
OutcomeOf(c) ==
    [index |-> c - 1,
     account |-> schedule[c].account,
     phase |-> schedule[c].phase,
     status |-> IF network[c].receipt = "receipt"
                THEN network[c].status[1] ELSE 0,
     error |-> network[c].transact = "raised"
                 \/ network[c].receipt = "error"]

\* what the result list shows of its k-th row
Shown(k) ==
    [index |-> results[k].index,
     account |-> results[k].account,
     phase |-> results[k].phase,
     status |-> results[k].status,
     error |-> results[k].error # None]

\* C30: the index, account, phase, status and presence of an error of the
\* rows of the returned list, in their order, are a function of the
\* schedule and of the answers of the network to each call alone; the
\* number of workers and the order in which submitter and workers took
\* their steps do not enter, so two runs that agree on the schedule and
\* on the answers return the same sequence.  Before the final sort the
\* rows are already these rows, in the order of their arrival.
C30_OutputDetermined ==
    /\ pc \in {"sort", "done"} =>
          /\ Len(results) = Len(schedule)
          /\ Len(network) = Len(schedule)
          /\ \A k \in 1..Len(results) :
                /\ results[k].index + 1 \in 1..Len(schedule)
                /\ Shown(k) = OutcomeOf(results[k].index + 1)
          /\ \A c \in 1..Len(schedule) : Cardinality(RowsOf(c)) = 1
    /\ pc = "done" =>
          \A k \in 1..Len(results) : Shown(k) = OutcomeOf(k)

\* two workers ended two calls differently and the row of the second call
\* arrived first: the list about to be sorted
C30_Witness ==
    /\ pc = "sort"
    /\ DOMAIN wpc = 1..2
    /\ Len(results) = 2
    /\ results[1].index > results[2].index
    /\ results[1].status # results[2].status

\* ---- C31 ----------------------------------------------------------------
\* the rows of the calls whose receipt wait returned a receipt
ReceiptRows == {k \in 1..Len(results) : ReceiptObtained(results[k].index + 1)}

\* C31 as stated: every row of a call whose receipt arrived records
\* success, with a latency and a completion offset.
C31_ReceiptMeansSuccess ==
    \A k \in ReceiptRows :
        /\ results[k].status = 1
        /\ results[k].latency_sec # None
        /\ results[k].completed_sec # None

\* a worker's step out of the receipt wait with a receipt in hand
C31_ReceiptArrives(w) ==
    /\ wpc[w] = "wait"
    /\ wpc'[w] = "lock"
    /\ network'[witem[w][1].index + 1].receipt = "receipt"

\* C31 amended: when the receipt wait returns a receipt the worker builds
\* and appends a row whose status is the status of that receipt (1 or 0),
\* with a latency and a completion offset and no error; whether the event
\* log decoded shows only in token_id and proposal_id, which are both set
\* or both None.
C31_ReceiptRowRecorded ==
    /\ [](\A k \in ReceiptRows :
            /\ results[k].status = network[results[k].index + 1].status[1]
            /\ results[k].status \in {0, 1}
            /\ results[k].latency_sec # None
            /\ results[k].completed_sec # None
            /\ results[k].error = None
            /\ results[k].token_id = None <=> results[k].proposal_id = None)
    /\ [](pc = "done" =>
            \A c \in Calls : ReceiptObtained(c) => Cardinality(RowsOf(c)) = 1)
    /\ [][\A w \in DOMAIN wpc :
            C31_ReceiptArrives(w) =>
              /\ wrow'[w] # None
              /\ wrow'[w][1].index = witem[w][1].index
              /\ wrow'[w][1].status
                   = network'[witem[w][1].index + 1].status[1]
              /\ wrow'[w][1].latency_sec
                   = Some(now' - witem[w][1].start_time)
              /\ wrow'[w][1].completed_sec = Some(now' - start_overall)]_vars

\* a finished run with a row of a status-1 receipt whose log did not
\* decode and a row of a status-0 receipt
C31_Witness ==
    /\ pc = "done"
    /\ \E k \in ReceiptRows :
          /\ results[k].status = 1
          /\ results[k].token_id = None
          /\ results[k].latency_sec # None
    /\ \E k \in ReceiptRows : results[k].status = 0
    /\ \E k \in ReceiptRows : results[k].token_id # None

\* ---- C32 ----------------------------------------------------------------
\* the try statement of call c is over: the call was put on the queue or
\* its failure row was appended, and the submitter has left the statement
Attempted(c) == c <= index \/ (c = index + 1 /\ pc = "finally")

\* the workers that took call c and have not appended its row yet
Processing(c) ==
    {w \in Holders(c) : wpc[w] \in {"wait", "lock", "append"}}

\* the number of places call c is in
Places(c) ==
    Cardinality(QueuePositions(c)) + Cardinality(Processing(c))
        + Cardinality(RowsOf(c))

C33_OffsetsOrdered ==
    /\ \A k \in 1..Len(results) :
          /\ results[k].submitted_sec >= 0
          /\ results[k].completed_sec # None =>
                /\ results[k].latency_sec # None
                /\ results[k].submitted_sec <= results[k].completed_sec[1]
                /\ results[k].completed_sec[1] - results[k].submitted_sec >= 0
                /\ results[k].latency_sec[1]
                     >= results[k].completed_sec[1] - results[k].submitted_sec
          /\ results[k].completed_sec # None
                => results[k].completed_sec[1] <= now - start_overall
          /\ results[k].submitted_sec <= now - start_overall
    /\ \A j, k \in 1..Len(results) :
          results[j].index < results[k].index
            => results[j].submitted_sec <= results[k].submitted_sec
    /\ pc \in {"sort", "done"} =>
          /\ duration # None
          /\ \A k \in 1..Len(results) :
                /\ duration[1] >= results[k].submitted_sec
                /\ results[k].completed_sec # None
                     => duration[1] >= results[k].completed_sec[1]

\* a finished run in which the clock moved between every pair of readings
\* of one call, and a later call with a later submitted offset
C33_Witness ==
    /\ pc = "done"
    /\ Len(results) >= 2
    /\ results[1].submitted_sec > 0
    /\ results[1].completed_sec # None
    /\ results[1].completed_sec[1] > results[1].submitted_sec
    /\ results[1].latency_sec[1]
         > results[1].completed_sec[1] - results[1].submitted_sec
    /\ results[2].submitted_sec > results[1].submitted_sec
    /\ duration[1] >= results[1].completed_sec[1]

\* ---- C34 ----------------------------------------------------------------
\* success_latencies = [row["latency_sec"] for row in results
\*                      if row["latency_sec"]]: None and 0.0 are both falsy
success_latencies(rows) ==
    LET truthy == SelectSeq(rows, LAMBDA row :
                      row.latency_sec # None /\ row.latency_sec[1] # 0)
    IN [k \in 1..Len(truthy) |-> truthy[k].latency_sec[1]]

\* the statistics main computes inline for the summary: the mean, the
\* entry max(0, ceil(0.95 * n) - 1) of the sorted list and its last entry,
\* or nothing when success_latencies is empty
summary_latency_stats(rows) ==
    LET sorted_latencies == Sorted(success_latencies(rows))
        p95_index ==
            Max(0, CeilOfFraction(95, 100, Len(sorted_latencies)) - 1)
    IN IF success_latencies(rows) = <<>> THEN None
       ELSE Some([avg |-> Mean(success_latencies(rows)),
                  p95 |-> sorted_latencies[p95_index + 1],
                  max |-> sorted_latencies[Len(sorted_latencies)]])

\* the two sets of overall statistics are both absent, or both present
\* with the same average, p95 and max
SameOverallStats(inline, overall) ==
    /\ inline = None <=> overall = None
    /\ inline # None =>
          /\ inline[1].avg.num * overall[1].avg[1].den
               = overall[1].avg[1].num * inline[1].avg.den
          /\ inline[1].p95 = overall[1].p95[1]
          /\ inline[1].max = overall[1].max[1]

\* C34: the statistics main computes inline for the summary and the overall
\* statistics collect_latency_breakdown returns for the report are absent
\* together and, when present, have the same average, p95 and max.
C34_TwoStatsAgree ==
    pc = "done" =>
        SameOverallStats(summary_latency_stats(results),
                         collect_latency_breakdown(results, phase_plan)[1])

\* the two agree on the runs none of whose rows has the latency 0
C34_AgreeWithoutZero ==
    (pc = "done"
       /\ \A k \in 1..Len(results) : results[k].latency_sec # Some(0)) =>
        SameOverallStats(summary_latency_stats(results),
                         collect_latency_breakdown(results, phase_plan)[1])

\* ---- C35 ----------------------------------------------------------------
\* the calls for which wait_for_transaction_receipt returned a receipt
ReceiptCalls == {c \in Calls : ReceiptObtained(c)}

\* the count of the overall latency statistics of the report
OverallCount ==
    IF Breakdown[1] = None THEN 0 ELSE Breakdown[1][1].count

\* C35: a row has a latency exactly when the receipt of its call was
\* obtained, whatever status the receipt reports; in a finished run the
\* count of the overall latency statistics is the number of calls whose
\* receipt was obtained and is not below the success count of the
\* throughput.
C35_LatencyIffReceipt ==
    /\ \A k \in 1..Len(results) :
          /\ results[k].latency_sec # None
                <=> ReceiptObtained(results[k].index + 1)
          /\ ReceiptObtained(results[k].index + 1) =>
                results[k].status = network[results[k].index + 1].status[1]
    /\ pc = "done" =>
          /\ OverallCount = Cardinality(ReceiptCalls)
          /\ OverallCount >= SummaryOfRun.success_count
          /\ OverallCount - SummaryOfRun.success_count
               = Cardinality({c \in ReceiptCalls : network[c].status # Some(1)})

\* a finished run with a receipt of status 0: more latencies than successes
C35_Witness ==
    /\ pc = "done"
    /\ SummaryOfRun.success_count = 1
    /\ OverallCount = 2
    /\ Cardinality(ReceiptCalls) = 2
    /\ Len(results) = 3
    /\ \E k \in 1..Len(results) :
          results[k].status = 0 /\ results[k].latency_sec # None

\* ---- C36 ----------------------------------------------------------------
\* the interval of the phase of the call of sequence index i
PhaseInterval(i) == Plan[PhaseOfIndex(Plan, i)].interval

RECURSIVE IntervalsBefore(_)
\* the intervals of the calls of sequence index 0 .. k - 1, added up
IntervalsBefore(k) ==
    IF k = 0 THEN 0 ELSE PhaseInterval(k - 1) + IntervalsBefore(k - 1)

\* C36: the deadline of a call is the deadline of the call attempted
\* before it plus the interval of the phase of that earlier call, or the
\* clock if that is later: the first call of a phase waits for the
\* interval of the phase before, and the interval of its own phase first
\* enters the deadline of the call after it.  A call is not started
\* before its deadline, which is never below the start of the run plus the
\* intervals of all calls attempted before it.
C36_GapIsPreviousInterval ==
    /\ [][(Phased /\ index' = index + 1) =>
            /\ next_emit_time'
                 = Max(next_emit_time + PhaseInterval(index), now')
            /\ next_emit_time' >= next_emit_time + PhaseInterval(index)]_vars
    /\ [](Phased /\ pc \in {"pace", "sleep", "start", "transact", "lock",
                             "append", "finally", "sentinels"} =>
            next_emit_time >= start_overall + IntervalsBefore(index))
    /\ [](Phased /\ pc = "transact" => iteration_start >= next_emit_time)

\* the only call of a phase with interval 1 was attempted at the start of
\* the run, and the first call of the next phase, whose interval is 2, is
\* attempted one tick after the start
C36_Witness ==
    /\ Phased
    /\ Len(Plan) = 2
    /\ Plan[1].count = 1
    /\ Plan[1].interval = 1
    /\ Plan[2].interval = 2
    /\ pc = "transact"
    /\ index = 1
    /\ next_emit_time = start_overall + 1
    /\ iteration_start = start_overall + 1

====
